---- MODULE Spec2Model ----
(***************************************************************************)
(* Verification model of components of avalanchego:                        *)
(*   - network/gossip_tracker.go            (GossipTracker)                *)
(*   - vms/platformvm/txs/fee/calculator.go (fee calculator)               *)
(*   - vms/platformvm/validators/manager.go (validator manager)            *)
(*   - vms/platformvm/txs/executor/*.go     (standard tx executor)         *)
(*   - vms/avm/client.go                    (ConfirmTx)                    *)
(*   - utils/linked/list.go                 (linked list)                  *)
(* Each component has its own next-state relation and specification; the   *)
(* variables of the other components stay unchanged.                       *)
(***************************************************************************)
EXTENDS Integers, Sequences, FiniteSets, TLC

VARIABLES
    \* ---- GossipTracker (gossip_tracker.go:43-56)
    local,            \* bitset of tracked peers, as the set of set bit indices
    knownPeers,       \* peer -> bitset of the peers we told it about
    peersToIndices,   \* peer -> index
    indicesToPeers,   \* index -> peer
    gRet,             \* the last call of the tracker and its return value
    addOrder,         \* history: the tracked peers, in the order of their Add
    \* ---- fee calculator (calculator.go:82-102) and its fees.Manager
    isEActive,          \* calculator.isEActive; feeManager is non-nil iff set
    apricotPhase3,      \* calculator.upgrades.IsApricotPhase3Activated(calculator.time)
    blockMaxComplexity, \* calculator.blockMaxComplexity
    tipPercentage,      \* calculator.tipPercentage
    fee,                \* calculator.fee
    cumulatedUnits,     \* feeManager: complexity cumulated so far
    fCalls,             \* number of calls made on the calculator
    fLog,               \* the last call on the calculator (and the addFeesFor
                        \* that a removeFeesFor follows), with the
                        \* values of fee, cumulatedUnits, tipPercentage before
    \* ---- validator manager (manager.go:118-135) and its State
    mHeight,          \* height of the last accepted block
    mValidators,      \* cfg.Validators: subnet -> node -> [Weight, PublicKey]
    mWeightDiffs,     \* state: <<subnet, height>> -> node -> signed weight diff
    mPublicKeyDiffs,  \* state: height -> node -> key of a validator that left
    mTracked,         \* cfg.TrackedSubnets contains SubnetA
    caches,           \* subnet -> height -> cached validator set
    mHistory,         \* height -> the validator sets current at that height
    mQueries,         \* number of GetValidatorSet calls made
    mRet,             \* the last call on the manager and its result
    UseCurrentHeight, \* cfg.UseCurrentHeight
    recentlyAccepted, \* the window of recently accepted block ids, oldest first
    mRead,            \* the GetValidatorSet call in flight: its arguments and
                      \* what it read under the accept lock
    \* ---- standard tx executor (standard_tx_executor.go:31-41) and its Backend
    State,            \* StandardTxExecutor.State: the diff the txs are applied to
    Bootstrapped,     \* Backend.Bootstrapped
    Tx,               \* StandardTxExecutor.Tx: the tx visited last
    Err,              \* the error the visitor method returned for Tx
    OnAccept,         \* StandardTxExecutor.OnAccept; {} is nil
    Inputs,           \* StandardTxExecutor.Inputs
    AtomicRequests,   \* StandardTxExecutor.AtomicRequests; empty is nil
    SharedMemory,     \* Ctx.SharedMemory: chain -> the UTXO ids it holds for this chain
    CreatedChains,    \* the CreateChainTxs that Config.CreateChain was called for
    applied,          \* number of txs executed successfully on the diff
    \* ---- avm client, ConfirmTx (vms/avm/client.go:157-175)
    cPc,              \* where ConfirmTx is: start, query, select, returned, panicked
    cFreq,            \* freq
    cStatus,          \* the status of the transaction on the node
    cNetOk,           \* whether requests to the node go through
    ctxDone,          \* whether ctx is done
    cLast,            \* status, err of the last GetTxStatus
    cRet,             \* what ConfirmTx returned
    cQueries,         \* number of queries made
    cTicks,           \* number of ticks received
    \* ---- linked lists (utils/linked/list.go:7-11, 40-45)
    lNext,            \* element or sentinel -> next
    lPrev,            \* element or sentinel -> prev
    lList,            \* element or sentinel -> list
    lLength,          \* list -> length
    lRet              \* the last call on a list and how it ended

gossipVars == <<local, knownPeers, peersToIndices, indicesToPeers, gRet, addOrder>>
feeVars == <<isEActive, apricotPhase3, blockMaxComplexity, tipPercentage, fee,
             cumulatedUnits, fCalls, fLog>>

mgrVars == <<mHeight, mValidators, mWeightDiffs, mPublicKeyDiffs, mTracked,
             caches, mHistory, mQueries, mRet, UseCurrentHeight, recentlyAccepted,
             mRead>>

execVars == <<State, Bootstrapped, Tx, Err, OnAccept, Inputs, AtomicRequests,
              SharedMemory, CreatedChains, applied>>

clientVars == <<cPc, cFreq, cStatus, cNetOk, ctxDone, cLast, cRet, cQueries, cTicks>>

listVars == <<lNext, lPrev, lList, lLength, lRet>>

vars == <<gossipVars, feeVars, mgrVars, execVars, clientVars, listVars>>

(***************************************************************************)
(* Generic helpers                                                         *)
(***************************************************************************)
Min(a, b) == IF a <= b THEN a ELSE b
Max(a, b) == IF a >= b THEN a ELSE b

\* The empty map (a function with empty domain).
EmptyMap == [x \in {} |-> 0]

\* m with key k removed.
MapDelete(m, k) == [x \in (DOMAIN m) \ {k} |-> m[x]]

\* m with key k set to v (insert or overwrite).
MapPut(m, k, v) == [x \in (DOMAIN m) \cup {k} |-> IF x = k THEN v ELSE m[x]]

(***************************************************************************)
(* GossipTracker                                                           *)
(***************************************************************************)
NumPeers == 3
MaxLearned == 2

GossipNodeIDs == 1..NumPeers

LearnedLists == UNION {[1..n -> GossipNodeIDs] : n \in 0..MaxLearned}

\* The last call: its arguments, the bool it returned, and the node ids
\* GetUnknown returned.
ReturnOf(op, id, ok, learned, limit, unknown) ==
    [op |-> op, id |-> id, ok |-> ok, learned |-> learned, limit |-> limit,
     unknown |-> unknown]
Return(op, id, ok) == ReturnOf(op, id, ok, <<>>, 0, <<>>)

InitGossip ==
    /\ local = {}
    /\ knownPeers = EmptyMap
    /\ peersToIndices = EmptyMap
    /\ indicesToPeers = EmptyMap
    /\ gRet = Return("New", 0, TRUE)
    /\ addOrder = << >>

\* GossipTracker.Add
Add(id) ==
    IF id \in DOMAIN peersToIndices
    THEN /\ gRet' = Return("Add", id, FALSE)
         /\ UNCHANGED <<local, knownPeers, peersToIndices, indicesToPeers>>
    ELSE LET tail == Cardinality(DOMAIN peersToIndices)
         IN /\ peersToIndices' = MapPut(peersToIndices, id, tail)
            /\ knownPeers' = MapPut(knownPeers, id, {})
            /\ indicesToPeers' = MapPut(indicesToPeers, tail, id)
            /\ local' = local \cup {tail}
            /\ gRet' = Return("Add", id, TRUE)

\* Remove's loop body without the final knownPeers.Remove(tail).
RemoveFromKnownKeepTail(known, idx, tail) ==
    IF idx # tail
    THEN IF tail \in known THEN known \cup {idx} ELSE known \ {idx}
    ELSE known

\* The loop of Remove without the copy of the tail peer's bit to the index
\* of the removed peer.
RemoveFromKnownNoCopy(known, idx, tail) == known \ {tail}

\* The loop of Remove over the known-sets of the remaining peers.
RemoveFromKnown(known, idx, tail) ==
    LET swapped == IF idx # tail
                   THEN IF tail \in known THEN known \cup {idx}
                                          ELSE known \ {idx}
                   ELSE known
    IN swapped \ {tail}

\* Remove that deletes the evicted peer's own index instead of swapping the
\* tail peer into it.
RemoveNoSwap(id) ==
    IF id \notin DOMAIN peersToIndices
    THEN /\ gRet' = Return("Remove", id, FALSE)
         /\ UNCHANGED <<local, knownPeers, peersToIndices, indicesToPeers>>
    ELSE LET idx == peersToIndices[id]
             kp == MapDelete(knownPeers, id)
         IN /\ peersToIndices' = MapDelete(peersToIndices, id)
            /\ indicesToPeers' = MapDelete(indicesToPeers, idx)
            /\ local' = local \ {idx}
            /\ knownPeers' = [p \in DOMAIN kp |-> kp[p] \ {idx}]
            /\ gRet' = Return("Remove", id, TRUE)

\* GossipTracker.Remove
Remove(id) ==
    IF id \notin DOMAIN peersToIndices
    THEN /\ gRet' = Return("Remove", id, FALSE)
         /\ UNCHANGED <<local, knownPeers, peersToIndices, indicesToPeers>>
    ELSE LET idx == peersToIndices[id]
             evicted == indicesToPeers[idx]
             tail == Cardinality(DOMAIN peersToIndices) - 1
             lastPeer == indicesToPeers[tail]
             i2p == IF idx # tail THEN MapPut(indicesToPeers, idx, lastPeer)
                                  ELSE indicesToPeers
             p2i == IF idx # tail THEN MapPut(peersToIndices, lastPeer, idx)
                                  ELSE peersToIndices
             kp == MapDelete(knownPeers, evicted)
         IN /\ peersToIndices' = MapDelete(p2i, evicted)
            /\ indicesToPeers' = MapDelete(i2p, tail)
            /\ local' = local \ {tail}
            /\ knownPeers' = [p \in DOMAIN kp |-> RemoveFromKnown(kp[p], idx, tail)]
            /\ gRet' = Return("Remove", id, TRUE)

\* UpdateKnown that adds each learned peer to the known set as it goes.
UpdateKnownAsItGoes(id, learned) ==
    IF id \notin DOMAIN knownPeers
    THEN /\ gRet' = ReturnOf("UpdateKnown", id, FALSE, learned, 0, <<>>)
         /\ UNCHANGED <<local, knownPeers, peersToIndices, indicesToPeers>>
    ELSE LET tracked == {i \in 1..Len(learned) :
                            \A j \in 1..i : learned[j] \in DOMAIN peersToIndices}
             bs == {peersToIndices[learned[i]] : i \in tracked}
         IN /\ knownPeers' = [knownPeers EXCEPT ![id] = @ \cup bs]
            /\ gRet' = ReturnOf("UpdateKnown", id, tracked = 1..Len(learned),
                                learned, 0, <<>>)
            /\ UNCHANGED <<local, peersToIndices, indicesToPeers>>

\* GossipTracker.UpdateKnown
UpdateKnown(id, learned) ==
    IF \/ id \notin DOMAIN knownPeers
       \/ \E i \in 1..Len(learned) : learned[i] \notin DOMAIN peersToIndices
    THEN /\ gRet' = ReturnOf("UpdateKnown", id, FALSE, learned, 0, <<>>)
         /\ UNCHANGED <<local, knownPeers, peersToIndices, indicesToPeers>>
    ELSE LET bs == {peersToIndices[learned[i]] : i \in 1..Len(learned)}
         IN /\ knownPeers' = [knownPeers EXCEPT ![id] = @ \cup bs]
            /\ gRet' = ReturnOf("UpdateKnown", id, TRUE, learned, 0, <<>>)
            /\ UNCHANGED <<local, peersToIndices, indicesToPeers>>

\* BigBitSet.Len: the number of bits up to the highest one set
BitLen(bits) == IF bits = {} THEN 0 ELSE (CHOOSE i \in bits : \A j \in bits : j <= i) + 1

\* indicesToPeers[i]; a Go map gives the empty node id for a missing key
PeerAt(i) == IF i \in DOMAIN indicesToPeers THEN indicesToPeers[i] ELSE 0

\* The loop of GetUnknown over the bits of unknown, from the LSB.
RECURSIVE GetUnknownLoop(_, _, _, _)
GetUnknownLoop(unknown, limit, i, result) ==
    IF i >= BitLen(unknown) THEN result
    ELSE IF i \notin unknown THEN GetUnknownLoop(unknown, limit, i + 1, result)
    ELSE IF Len(result) >= limit THEN result
    ELSE GetUnknownLoop(unknown, limit, i + 1, Append(result, PeerAt(i)))

\* The peers GetUnknown returns, without the stop at limit.
unknownPeersNoLimit(id, limit) ==
    GetUnknownLoop(local \ knownPeers[id], BitLen(local), 0, <<>>)

\* The peers GetUnknown returns for a tracked peer and a positive limit.
unknownPeers(id, limit) ==
    GetUnknownLoop(local \ knownPeers[id], limit, 0, <<>>)

\* GossipTracker.GetUnknown
GetUnknown(id, limit) ==
    /\ IF limit <= 0 \/ id \notin DOMAIN knownPeers
       THEN gRet' = ReturnOf("GetUnknown", id, FALSE, <<>>, limit, <<>>)
       ELSE gRet' = ReturnOf("GetUnknown", id, TRUE, <<>>, limit, unknownPeers(id, limit))
    /\ UNCHANGED <<local, knownPeers, peersToIndices, indicesToPeers>>

GossipAdd ==
    \E id \in GossipNodeIDs : Add(id) /\ UNCHANGED <<addOrder, feeVars, mgrVars, execVars, clientVars, listVars>>
GossipRemove ==
    \E id \in GossipNodeIDs : Remove(id) /\ UNCHANGED <<addOrder, feeVars, mgrVars, execVars, clientVars, listVars>>
GossipUpdateKnown ==
    \E id \in GossipNodeIDs, learned \in LearnedLists :
        UpdateKnown(id, learned) /\ UNCHANGED <<addOrder, feeVars, mgrVars, execVars, clientVars, listVars>>

GetUnknownLimits == {0, 1, 2, 8}
GossipGetUnknown ==
    \E id \in GossipNodeIDs, limit \in GetUnknownLimits :
        GetUnknown(id, limit) /\ UNCHANGED <<addOrder, feeVars, mgrVars, execVars, clientVars, listVars>>

NextGossip ==
    \/ GossipGetUnknown
    \/ GossipAdd
    \/ GossipRemove
    \/ GossipUpdateKnown

\* The calls of the tracker with the history of the Adds kept: a peer joins
\* addOrder at its successful Add and leaves it at its successful Remove.
Without(order, id) == SelectSeq(order, LAMBDA p : p # id)

AddInOrder ==
    \E id \in GossipNodeIDs :
        /\ Add(id)
        /\ addOrder' = IF id \in DOMAIN peersToIndices THEN addOrder
                       ELSE Append(addOrder, id)
        /\ UNCHANGED <<feeVars, mgrVars, execVars, clientVars, listVars>>
RemoveInOrder ==
    \E id \in GossipNodeIDs :
        /\ Remove(id)
        /\ addOrder' = Without(addOrder, id)
        /\ UNCHANGED <<feeVars, mgrVars, execVars, clientVars, listVars>>
UpdateKnownInOrder ==
    \E id \in GossipNodeIDs, learned \in {l \in LearnedLists : Len(l) <= 1} :
        /\ UpdateKnown(id, learned)
        /\ UNCHANGED <<addOrder, feeVars, mgrVars, execVars, clientVars, listVars>>
GetUnknownInOrder ==
    \E id \in GossipNodeIDs, limit \in GetUnknownLimits :
        /\ GetUnknown(id, limit)
        /\ UNCHANGED <<addOrder, feeVars, mgrVars, execVars, clientVars, listVars>>

NextGossipInOrder ==
    \/ GetUnknownInOrder
    \/ AddInOrder
    \/ RemoveInOrder
    \/ UpdateKnownInOrder

(***************************************************************************)
(* Fee calculator                                                          *)
(***************************************************************************)
\* uint64 is modelled with UintBits bits (TLC integers have 32 bits).
UintBits == 24
MaxUint64 == 2^UintBits - 1
MaxFeeCalls == 4

FeeDimensions == 4
Empty == <<0, 0, 0, 0>>
TipDenonimator == 1000000

\* eUpgradeDynamicFeesConfig.UnitFees, in nAVAX
UnitFees == <<1, 2, 3, 4>>

\* The complexities, fees and tips the calculator is called with.
Complexities ==
    {Empty, <<100, 0, 0, 0>>, <<100, 100, 0, 0>>, <<0, 0, 0, 200>>,
     <<200, 200, 200, 200>>}
BlockCaps == {<<MaxUint64, MaxUint64, MaxUint64, MaxUint64>>, <<250, 250, 250, 250>>}
FeeValues == {0, MaxUint64}
TipValues == {0, 10000}

\* safemath.Mul64 / Add64 / Sub: the result, or -1 for an overflow error.
Mul64(a, b) == IF b # 0 /\ a > MaxUint64 \div b THEN -1 ELSE a * b
Add64(a, b) == IF a + b > MaxUint64 THEN -1 ELSE a + b
Sub64(a, b) == IF a < b THEN -1 ELSE a - b

\* fees.Manager.CalculateFee: sum of unitFees[i] * units[i], plus the tip;
\* -1 for an overflow error.
RECURSIVE SumFees(_, _)
SumFees(units, i) ==
    IF i = 0 THEN 0
    ELSE LET rest == SumFees(units, i - 1)
             contribution == Mul64(UnitFees[i], units[i])
         IN IF rest = -1 \/ contribution = -1 THEN -1
            ELSE Add64(contribution, rest)

CalculateFee(units, tip) ==
    LET base == SumFees(units, FeeDimensions)
    IN IF base = -1 THEN -1
       ELSE LET scaled == Mul64(base, tip)
            IN IF scaled = -1 THEN -1
               ELSE Add64(base, scaled \div TipDenonimator)

\* fees.Manager.CumulateComplexity: the first dimension (1-based) in which
\* cum + units breaches bounds, 0 if none does.
BreachedDimension(cum, units, bounds) ==
    LET breached == {i \in 1..FeeDimensions :
                        Add64(cum[i], units[i]) = -1 \/ cum[i] + units[i] > bounds[i]}
    IN IF breached = {} THEN 0
       ELSE CHOOSE i \in breached : \A j \in breached : i <= j

CumulateComplexity(cum, units) == [i \in 1..FeeDimensions |-> cum[i] + units[i]]

\* fees.Manager.RemoveComplexity: fails when a dimension would go negative.
CanRemoveComplexity(cum, units) ==
    \A i \in 1..FeeDimensions : Sub64(cum[i], units[i]) # -1

RemoveComplexity(cum, units) == [i \in 1..FeeDimensions |-> cum[i] - units[i]]

\* The txs the calculator visits. Of a tx that is metered the log keeps what
\* meterTx reads: the size of the unsigned bytes, the number of signatures of
\* each credential and the sizes of the inputs and of the outputs.
FeeTx(kind, subnet) ==
    [kind |-> kind, Subnet |-> subnet, uTxSize |-> 0, credentials |-> << >>,
     allIns |-> << >>, allOuts |-> << >>]
NoFeeTx == FeeTx("", "")
Metered(uTxSize, credentials, allIns, allOuts) ==
    [NoFeeTx EXCEPT !.uTxSize = uTxSize, !.credentials = credentials,
                    !.allIns = allIns, !.allOuts = allOuts]

\* The log keeps the last call, with the arguments it was made with and the
\* fields of the calculator before it; a removeFeesFor is kept together with
\* the addFeesFor it follows.
LogCallOf(op, x, tx, feesPaid, ok) ==
    LET entry == [op |-> op, x |-> x, tx |-> tx, feesPaid |-> feesPaid, ok |-> ok,
                  fee |-> fee, cum |-> cumulatedUnits, tip |-> tipPercentage]
    IN IF op = "removeFeesFor" /\ Len(fLog) > 0 /\ fLog[Len(fLog)].op = "addFeesFor"
       THEN <<fLog[Len(fLog)], entry>>
       ELSE <<entry>>
LogCall(op, x, ok) == LogCallOf(op, x, NoFeeTx, 0, ok)

InitFee ==
    /\ isEActive \in BOOLEAN
    /\ apricotPhase3 \in BOOLEAN
    /\ blockMaxComplexity \in BlockCaps
    /\ tipPercentage = 0
    /\ fee = 0
    /\ cumulatedUnits = Empty
    /\ fCalls = 0
    /\ fLog = << >>

\* calculator.addFeesFor, called for the metered tx (NoFeeTx when it is
\* called through Calculator.AddFeesFor).
addFeesForTx(complexity, tx) ==
    IF ~isEActive \/ complexity = Empty
    THEN /\ fLog' = LogCallOf("addFeesFor", complexity, tx, 0, TRUE)
         /\ UNCHANGED <<fee, cumulatedUnits>>
    ELSE IF BreachedDimension(cumulatedUnits, complexity, blockMaxComplexity) # 0
    THEN /\ fLog' = LogCallOf("addFeesFor", complexity, tx, 0, FALSE)
         /\ UNCHANGED <<fee, cumulatedUnits>>
    ELSE LET f == CalculateFee(complexity, tipPercentage)
         IN /\ cumulatedUnits' = CumulateComplexity(cumulatedUnits, complexity)
            /\ IF f = -1
               THEN /\ fLog' = LogCallOf("addFeesFor", complexity, tx, 0, FALSE)
                    /\ UNCHANGED fee
               ELSE /\ fLog' = LogCallOf("addFeesFor", complexity, tx, 0, TRUE)
                    /\ fee' = (fee + f) % (MaxUint64 + 1)

addFeesFor(complexity) == addFeesForTx(complexity, NoFeeTx)

\* removeFeesFor that forgets to give the complexity back to the manager.
removeFeesForKeepUnits(unitsToRm) ==
    IF ~isEActive \/ unitsToRm = Empty
    THEN /\ fLog' = LogCall("removeFeesFor", unitsToRm, TRUE)
         /\ UNCHANGED <<fee, cumulatedUnits>>
    ELSE LET f == CalculateFee(unitsToRm, tipPercentage)
         IN /\ UNCHANGED cumulatedUnits
            /\ IF f = -1
               THEN /\ fLog' = LogCall("removeFeesFor", unitsToRm, FALSE)
                    /\ UNCHANGED fee
               ELSE /\ fLog' = LogCall("removeFeesFor", unitsToRm, TRUE)
                    /\ fee' = (fee - f) % (MaxUint64 + 1)

\* calculator.removeFeesFor
removeFeesFor(unitsToRm) ==
    IF ~isEActive \/ unitsToRm = Empty
    THEN /\ fLog' = LogCall("removeFeesFor", unitsToRm, TRUE)
         /\ UNCHANGED <<fee, cumulatedUnits>>
    ELSE IF ~CanRemoveComplexity(cumulatedUnits, unitsToRm)
    THEN /\ fLog' = LogCall("removeFeesFor", unitsToRm, FALSE)
         /\ UNCHANGED <<fee, cumulatedUnits>>
    ELSE LET f == CalculateFee(unitsToRm, tipPercentage)
         IN /\ cumulatedUnits' = RemoveComplexity(cumulatedUnits, unitsToRm)
            /\ IF f = -1
               THEN /\ fLog' = LogCall("removeFeesFor", unitsToRm, FALSE)
                    /\ UNCHANGED fee
               ELSE /\ fLog' = LogCall("removeFeesFor", unitsToRm, TRUE)
                    /\ fee' = (fee - f) % (MaxUint64 + 1)

FeeCall ==
    /\ fCalls < MaxFeeCalls
    /\ fCalls' = fCalls + 1
    /\ UNCHANGED <<gossipVars, mgrVars, execVars, clientVars, listVars>>

\* Calculator.AddFeesFor
AddFeesFor ==
    \E complexity \in Complexities :
        /\ FeeCall
        /\ addFeesFor(complexity)
        /\ UNCHANGED <<isEActive, apricotPhase3, blockMaxComplexity, tipPercentage>>

\* Calculator.RemoveFeesFor
RemoveFeesFor ==
    \E unitsToRm \in Complexities :
        /\ FeeCall
        /\ removeFeesFor(unitsToRm)
        /\ UNCHANGED <<isEActive, apricotPhase3, blockMaxComplexity, tipPercentage>>

\* Calculator.ResetFee
ResetFee ==
    \E newFee \in FeeValues :
        /\ FeeCall
        /\ fee' = newFee
        /\ fLog' = LogCall("ResetFee", Empty, TRUE)
        /\ UNCHANGED <<isEActive, apricotPhase3, blockMaxComplexity, tipPercentage,
                       cumulatedUnits>>

\* Calculator.ResetTipPercentage
ResetTipPercentage ==
    \E tip \in TipValues :
        /\ FeeCall
        /\ tipPercentage' = tip
        /\ fLog' = LogCall("ResetTipPercentage", Empty, TRUE)
        /\ UNCHANGED <<isEActive, apricotPhase3, blockMaxComplexity, fee, cumulatedUnits>>

\* StaticConfig: the fees of the static schedule, in nAVAX
staticCfg ==
    [TxFee |-> 1,
     CreateAssetTxFee |-> 2,
     CreateSubnetTxFee |-> 3,
     TransformSubnetTxFee |-> 4,
     CreateBlockchainTxFee |-> 5,
     AddPrimaryNetworkValidatorFee |-> 6,
     AddPrimaryNetworkDelegatorFee |-> 7,
     AddSubnetValidatorFee |-> 8,
     AddSubnetDelegatorFee |-> 9]

\* The unsigned txs the calculator visits, and what meterTx reads of the
\* metered ones.
FeeTxKinds ==
    {"AddValidatorTx", "AddSubnetValidatorTx", "AddDelegatorTx", "CreateChainTx",
     "CreateSubnetTx", "AdvanceTimeTx", "RewardValidatorTx", "RemoveSubnetValidatorTx",
     "TransformSubnetTx", "TransferSubnetOwnershipTx", "AddPermissionlessValidatorTx",
     "AddPermissionlessDelegatorTx", "BaseTx", "ImportTx", "ExportTx"}
FeeTxs ==
    {FeeTx(kind, "primary") : kind \in FeeTxKinds}
    \cup {FeeTx(kind, "subnetA") :
            kind \in {"AddPermissionlessValidatorTx", "AddPermissionlessDelegatorTx"}}
MeteredTxs ==
    {Metered(94, << >>, << >>, << >>),
     Metered(30, <<1>>, <<60>>, <<40>>),
     Metered(30, <<2>>, <<60>>, <<40>>)}

\* wrappers.IntLen and codec.VersionSize, in bytes.
IntLen == 4
VersionSize == 2

\* fees.MeterCredential, fees.MeterInput and fees.MeterOutput: a credential
\* is its length prefix and 65 bytes a signature, and costs compute to
\* verify; an input is read from and deleted from the UTXO set; an output is
\* written to it.
MeterCredential(numSigs) == <<IntLen + 65 * numSigs, 0, 0, 100 * numSigs>>
MeterInput(size) == <<size, size, size, 0>>
MeterOutput(size) == <<size, 0, size, 0>>

\* fees.Add: the sum in every dimension, an error when one overflows.
AddDimensions(lhs, rhs) ==
    IF \E i \in 1..FeeDimensions : Add64(lhs[i], rhs[i]) = -1
    THEN [err |-> "overflow", complexity |-> lhs]
    ELSE [err |-> "nil", complexity |-> [i \in 1..FeeDimensions |-> lhs[i] + rhs[i]]]

\* The loops of meterTx: dims[from..] is added to acc.complexity one by one,
\* the first error ends it.
RECURSIVE AddEach(_, _, _)
AddEach(acc, dims, from) ==
    IF acc.err # "nil" \/ from > Len(dims) THEN acc
    ELSE AddEach(AddDimensions(acc.complexity, dims[from]), dims, from + 1)

ZeroBandwidth(dims) == [dims EXCEPT ![1] = 0]

\* calculator.meterTx: the credentials are added as they are metered, the
\* inputs and the outputs with their bandwidth set to zero.
meterTx(tx) ==
    LET sized == [err |-> "nil", complexity |-> <<tx.uTxSize, 0, 0, 0>>]
        withCreds ==
            AddEach(sized,
                    [i \in 1..Len(tx.credentials) |-> MeterCredential(tx.credentials[i])],
                    1)
        prefixed ==
            [withCreds EXCEPT !.complexity[1] =
                (withCreds.complexity[1] + IntLen + VersionSize) % (MaxUint64 + 1)]
        withIns ==
            AddEach(prefixed,
                    [i \in 1..Len(tx.allIns) |-> ZeroBandwidth(MeterInput(tx.allIns[i]))],
                    1)
        withOuts ==
            AddEach(withIns,
                    [i \in 1..Len(tx.allOuts) |-> ZeroBandwidth(MeterOutput(tx.allOuts[i]))],
                    1)
    IN IF withCreds.err # "nil" THEN withCreds
       ELSE IF withIns.err # "nil" THEN withIns
       ELSE withOuts
PaidValues == {50, 110, 200}

\* The visitor methods of the calculator that set the fee whatever the fork.
SetsFeeDirectly(tx) ==
    tx.kind \in {"AddValidatorTx", "AddDelegatorTx", "AdvanceTimeTx", "RewardValidatorTx"}

\* The fee that the visitor method of tx sets when it does not meter the tx.
staticFee(tx) ==
    CASE tx.kind = "AddValidatorTx" -> staticCfg.AddPrimaryNetworkValidatorFee
      [] tx.kind = "AddSubnetValidatorTx" -> staticCfg.AddSubnetValidatorFee
      [] tx.kind = "AddDelegatorTx" -> staticCfg.AddPrimaryNetworkDelegatorFee
      [] tx.kind = "CreateChainTx" ->
            IF apricotPhase3 THEN staticCfg.CreateBlockchainTxFee
            ELSE staticCfg.CreateAssetTxFee
      [] tx.kind = "CreateSubnetTx" ->
            IF apricotPhase3 THEN staticCfg.CreateSubnetTxFee
            ELSE staticCfg.CreateAssetTxFee
      [] tx.kind \in {"AdvanceTimeTx", "RewardValidatorTx"} -> 0
      [] tx.kind = "TransformSubnetTx" -> staticCfg.TransformSubnetTxFee
      [] tx.kind = "AddPermissionlessValidatorTx" ->
            IF tx.Subnet # "primary" THEN staticCfg.AddSubnetValidatorFee
            ELSE staticCfg.CreateAssetTxFee
      [] tx.kind = "AddPermissionlessDelegatorTx" ->
            IF tx.Subnet # "primary" THEN staticCfg.AddSubnetDelegatorFee
            ELSE staticCfg.AddPrimaryNetworkDelegatorFee
      [] OTHER -> staticCfg.TxFee

\* Calculator.ComputeFee: tx.Visit(c.c), the fee is c.c.fee afterwards. A
\* visitor method that meters the tx ends with its call of addFeesFor, which
\* is the call logged, with what meterTx read of the tx.
ComputeFee ==
    \E tx \in FeeTxs :
        /\ FeeCall
        /\ IF ~isEActive \/ SetsFeeDirectly(tx)
           THEN /\ fee' = staticFee(tx)
                /\ fLog' = LogCallOf("ComputeFee", Empty, tx, 0, TRUE)
                /\ UNCHANGED cumulatedUnits
           ELSE \E metered \in MeteredTxs :
                    IF meterTx(metered).err # "nil"
                    THEN /\ fLog' = LogCallOf("ComputeFee", Empty, metered, 0, FALSE)
                         /\ UNCHANGED <<fee, cumulatedUnits>>
                    ELSE addFeesForTx(meterTx(metered).complexity, metered)
        /\ UNCHANGED <<isEActive, apricotPhase3, blockMaxComplexity, tipPercentage>>

\* Calculator.CalculateTipPercentage; the product wraps as uint64 does.
\* TipPercentage.Validate writes nothing.
CalculateTipPercentage ==
    \E feesPaid \in PaidValues :
        /\ FeeCall
        /\ IF feesPaid < fee
           THEN /\ fLog' = LogCallOf("CalculateTipPercentage", Empty, NoFeeTx, feesPaid, FALSE)
                /\ UNCHANGED tipPercentage
           ELSE IF fee = 0
           THEN /\ fLog' = LogCallOf("CalculateTipPercentage", Empty, NoFeeTx, feesPaid, TRUE)
                /\ UNCHANGED tipPercentage
           ELSE LET tip == feesPaid - fee
                IN /\ tipPercentage' = ((tip * TipDenonimator) % (MaxUint64 + 1)) \div fee
                   /\ fLog' = LogCallOf("CalculateTipPercentage", Empty, NoFeeTx, feesPaid, TRUE)
        /\ UNCHANGED <<isEActive, apricotPhase3, blockMaxComplexity, fee, cumulatedUnits>>

NextFee ==
    \/ ComputeFee
    \/ CalculateTipPercentage
    \/ AddFeesFor
    \/ RemoveFeesFor
    \/ ResetFee
    \/ ResetTipPercentage

(***************************************************************************)
(* Validator manager                                                       *)
(***************************************************************************)
MaxHeight == 3
MaxQueries == 2

validatorSetsCacheSize == 64

PrimaryNetworkID == "primary"
SubnetA == "subnetA"
ManagerSubnets == {PrimaryNetworkID, SubnetA}
ManagerNodes == {"n1", "n2"}
NoKey == "nil"
\* The <<weight, public key>> a primary network validator joins with, and
\* the weights a subnet validator joins with.
PrimaryStakes == {<<1, "k1">>, <<2, "k2">>}
SubnetWeights == {1, 2}

\* validators.GetValidatorOutput (the node id is the key of the map)
Vdr(w, pk) == [Weight |-> w, PublicKey |-> pk]

\* The validator sets of one height, as they were current at that height:
\* subnet validators carry the key of the node's primary network validator.
SetsOf(vals) ==
    [s \in ManagerSubnets |->
        [n \in DOMAIN vals[s] |->
            Vdr(vals[s][n].Weight,
                IF n \in DOMAIN vals[PrimaryNetworkID]
                THEN vals[PrimaryNetworkID][n].PublicKey ELSE NoKey)]]

GenesisValidators ==
    [s \in ManagerSubnets |->
        IF s = PrimaryNetworkID THEN [n \in {"n1"} |-> Vdr(1, "k1")] ELSE EmptyMap]

\* window.Window, with its sizes scaled down: Add appends, drops the oldest
\* element over MaxSize, and with Oldest drops the elements older than the
\* TTL as long as more than MinSize remain. How many are that old depends on
\* the clock: expired is their number.
WindowMaxSize == 2
WindowMinSize == 1
RECURSIVE DropOldest(_, _)
DropOldest(window, n) ==
    IF n = 0 \/ window = << >> THEN window ELSE DropOldest(Tail(window), n - 1)
Expirable(window) ==
    0 .. (IF Len(window) > WindowMinSize THEN Len(window) - WindowMinSize ELSE 0)
WindowAdd(window, x) ==
    LET added == Append(window, x)
    IN IF Len(added) > WindowMaxSize THEN Tail(added) ELSE added

\* A block id is the height of its block: state.GetStatelessBlock(id).Height()
BlockHeight(blkID) == blkID

\* manager.OnAcceptedBlockID
OnAcceptedBlockID(blkID, expired) ==
    LET added == WindowAdd(recentlyAccepted, blkID)
    IN DropOldest(added, IF expired \in Expirable(added) THEN expired ELSE 0)

\* No GetValidatorSet call is in flight.
NoRead ==
    [busy |-> FALSE, targetHeight |-> 0, subnetID |-> PrimaryNetworkID,
     current |-> [validators |-> GenesisValidators, height |-> 0]]

InitManager ==
    /\ mHeight = 0
    /\ mValidators = GenesisValidators
    /\ mWeightDiffs = EmptyMap
    /\ mPublicKeyDiffs = EmptyMap
    /\ mTracked \in BOOLEAN
    /\ caches = EmptyMap
    /\ mHistory = [h \in {0} |-> SetsOf(GenesisValidators)]
    /\ mQueries = 0
    /\ mRet = [op |-> "NewManager"]
    /\ UseCurrentHeight \in BOOLEAN
    /\ recentlyAccepted = << >>
    /\ mRead = NoRead

\* Acceptance of a block at height mHeight + 1 that changes the validator
\* set of [subnet] to [newSet]: the state records the weight diff of [node]
\* and, for a validator leaving the primary network, its public key.
AcceptBlock(subnet, node, newSet, weightDiff, leftKey) ==
    LET h == mHeight + 1
        vals == [mValidators EXCEPT ![subnet] = newSet]
    IN /\ mHeight < MaxHeight
       /\ mHeight' = h
       /\ mValidators' = vals
       /\ mWeightDiffs' = MapPut(mWeightDiffs, <<subnet, h>>, [n \in {node} |-> weightDiff])
       /\ mPublicKeyDiffs' = IF leftKey = NoKey THEN mPublicKeyDiffs
                             ELSE MapPut(mPublicKeyDiffs, h, [n \in {node} |-> leftKey])
       /\ mHistory' = MapPut(mHistory, h, SetsOf(vals))
       /\ \E expired \in 0..WindowMaxSize :
             recentlyAccepted' = OnAcceptedBlockID(h, expired)
       /\ UNCHANGED <<mTracked, caches, mQueries, mRet, UseCurrentHeight, mRead>>
       /\ UNCHANGED <<gossipVars, feeVars, execVars, clientVars, listVars>>

\* A validator joins the primary network.
AcceptAddPrimaryValidator ==
    \E n \in ManagerNodes, st \in PrimaryStakes :
        /\ n \notin DOMAIN mValidators[PrimaryNetworkID]
        /\ AcceptBlock(PrimaryNetworkID, n,
                       MapPut(mValidators[PrimaryNetworkID], n, Vdr(st[1], st[2])),
                       st[1], NoKey)

\* A validator leaves the primary network, after it left the subnet.
AcceptRemovePrimaryValidator ==
    \E n \in DOMAIN mValidators[PrimaryNetworkID] :
        /\ n \notin DOMAIN mValidators[SubnetA]
        /\ AcceptBlock(PrimaryNetworkID, n,
                       MapDelete(mValidators[PrimaryNetworkID], n),
                       -(mValidators[PrimaryNetworkID][n].Weight),
                       mValidators[PrimaryNetworkID][n].PublicKey)

\* A primary network validator joins the subnet.
AcceptAddSubnetValidator ==
    \E n \in DOMAIN mValidators[PrimaryNetworkID], w \in SubnetWeights :
        /\ n \notin DOMAIN mValidators[SubnetA]
        /\ AcceptBlock(SubnetA, n, MapPut(mValidators[SubnetA], n, Vdr(w, NoKey)), w, NoKey)

\* A validator leaves the subnet.
AcceptRemoveSubnetValidator ==
    \E n \in DOMAIN mValidators[SubnetA] :
        AcceptBlock(SubnetA, n, MapDelete(mValidators[SubnetA], n),
                    -(mValidators[SubnetA][n].Weight), NoKey)

\* State.ApplyValidatorWeightDiffs for one height: undo the diff of the
\* height on [set].
UndoWeightDiff(set, subnet, h) ==
    IF <<subnet, h>> \notin DOMAIN mWeightDiffs THEN set
    ELSE LET diff == mWeightDiffs[<<subnet, h>>]
             n == CHOOSE x \in DOMAIN diff : TRUE
             old == IF n \in DOMAIN set THEN set[n] ELSE Vdr(0, NoKey)
             w == old.Weight - diff[n]
         IN IF w = 0 THEN MapDelete(set, n)
            ELSE MapPut(set, n, [old EXCEPT !.Weight = w])

\* State.ApplyValidatorWeightDiffs: heights startHeight down to endHeight.
RECURSIVE ApplyValidatorWeightDiffs(_, _, _, _)
ApplyValidatorWeightDiffs(set, startHeight, endHeight, subnet) ==
    IF startHeight < endHeight THEN set
    ELSE ApplyValidatorWeightDiffs(UndoWeightDiff(set, subnet, startHeight),
                                   startHeight - 1, endHeight, subnet)

\* State.ApplyValidatorPublicKeyDiffs for one height: a validator of [set]
\* that left the primary network at the height gets its key back.
UndoPublicKeyDiff(set, h) ==
    IF h \notin DOMAIN mPublicKeyDiffs THEN set
    ELSE LET diff == mPublicKeyDiffs[h]
         IN [n \in DOMAIN set |->
                IF n \in DOMAIN diff THEN [set[n] EXCEPT !.PublicKey = diff[n]]
                ELSE set[n]]

\* State.ApplyValidatorPublicKeyDiffs: heights startHeight down to endHeight.
RECURSIVE ApplyValidatorPublicKeyDiffs(_, _, _)
ApplyValidatorPublicKeyDiffs(set, startHeight, endHeight) ==
    IF startHeight < endHeight THEN set
    ELSE ApplyValidatorPublicKeyDiffs(UndoPublicKeyDiff(set, startHeight),
                                      startHeight - 1, endHeight)

\* manager.getCurrentPrimaryValidatorSet and getCurrentValidatorSets: the
\* copies of the current sets and the current height, taken in one hold of
\* the accept lock.
getCurrentValidatorSets == [validators |-> mValidators, height |-> mHeight]

\* manager.makePrimaryNetworkValidatorSet once it has read current: [err, set]
makePrimaryNetworkValidatorSetOf(current, targetHeight) ==
    LET validatorSet == current.validators[PrimaryNetworkID]
        currentHeight == current.height
        lastDiffHeight == targetHeight + 1
    IN IF currentHeight < targetHeight
       THEN [err |-> "ErrNotFound", set |-> EmptyMap]
       ELSE [err |-> "nil",
             set |-> ApplyValidatorPublicKeyDiffs(
                         ApplyValidatorWeightDiffs(validatorSet, currentHeight,
                                                   lastDiffHeight, PrimaryNetworkID),
                         currentHeight, lastDiffHeight)]

\* manager.makePrimaryNetworkValidatorSet
makePrimaryNetworkValidatorSet(targetHeight) ==
    makePrimaryNetworkValidatorSetOf(getCurrentValidatorSets, targetHeight)

\* makeSubnetValidatorSet without the comparison of the target height with
\* the current height.
makeSubnetValidatorSetAnyHeight(targetHeight, subnetID) ==
    [err |-> "nil",
     set |-> ApplyValidatorWeightDiffs(mValidators[subnetID], mHeight,
                                       targetHeight + 1, subnetID)]

\* manager.makeSubnetValidatorSet once it has read current: [err, set]
makeSubnetValidatorSetOf(current, targetHeight, subnetID) ==
    LET primaryValidatorSet == current.validators[PrimaryNetworkID]
        currentHeight == current.height
        lastDiffHeight == targetHeight + 1
        subnetValidatorSet ==
            ApplyValidatorWeightDiffs(current.validators[subnetID], currentHeight,
                                      lastDiffHeight, subnetID)
        withKeys ==
            [n \in DOMAIN subnetValidatorSet |->
                [subnetValidatorSet[n] EXCEPT
                    !.PublicKey = IF n \in DOMAIN primaryValidatorSet
                                  THEN primaryValidatorSet[n].PublicKey ELSE NoKey]]
    IN IF currentHeight < targetHeight
       THEN [err |-> "ErrNotFound", set |-> EmptyMap]
       ELSE IF \E n \in DOMAIN subnetValidatorSet : n \notin DOMAIN primaryValidatorSet
       THEN [err |-> "ErrMissingValidator", set |-> EmptyMap]
       ELSE [err |-> "nil",
             set |-> ApplyValidatorPublicKeyDiffs(withKeys, currentHeight, lastDiffHeight)]

\* manager.makeSubnetValidatorSet
makeSubnetValidatorSet(targetHeight, subnetID) ==
    makeSubnetValidatorSetOf(getCurrentValidatorSets, targetHeight, subnetID)

\* manager.getValidatorSetCache: whether sets of the subnet are cached.
IsCached(subnetID) == subnetID = PrimaryNetworkID \/ mTracked

\* manager.getValidatorSetCache: the caches, with an empty one made for the
\* subnet if its sets are cached and it has none.
getValidatorSetCache(subnetID) ==
    IF IsCached(subnetID) /\ subnetID \notin DOMAIN caches
    THEN MapPut(caches, subnetID, EmptyMap)
    ELSE caches

\* cache.LRU.Put; fewer than validatorSetsCacheSize heights exist, so that
\* no entry is evicted.
CachePut(subnetID, targetHeight, validatorSet) ==
    IF ~IsCached(subnetID) THEN caches
    ELSE LET c == IF subnetID \in DOMAIN caches THEN caches[subnetID] ELSE EmptyMap
         IN MapPut(caches, subnetID, MapPut(c, targetHeight, validatorSet))

\* manager.GetValidatorSet
GetValidatorSet ==
    \E targetHeight \in 0..(MaxHeight + 1), subnetID \in ManagerSubnets :
        LET res == IF subnetID = PrimaryNetworkID
                   THEN makePrimaryNetworkValidatorSet(targetHeight)
                   ELSE makeSubnetValidatorSet(targetHeight, subnetID)
        IN /\ mQueries < MaxQueries
           /\ mQueries' = mQueries + 1
           /\ mRet' = [op |-> "GetValidatorSet", targetHeight |-> targetHeight,
                       subnetID |-> subnetID, currentHeight |-> mHeight,
                       err |-> res.err, set |-> res.set]
           /\ caches' = IF res.err = "nil" THEN CachePut(subnetID, targetHeight, res.set)
                        ELSE getValidatorSetCache(subnetID)
           /\ UNCHANGED <<mHeight, mValidators, mWeightDiffs, mPublicKeyDiffs,
                          mTracked, mHistory, UseCurrentHeight, recentlyAccepted, mRead>>
           /\ UNCHANGED <<gossipVars, feeVars, execVars, clientVars, listVars>>

\* GetMinimumHeight that takes the height of the oldest block of the window
\* also when UseCurrentHeight is set.
minimumHeightIgnoringFlag(window) ==
    IF window = << >> THEN mHeight
    ELSE (BlockHeight(Head(window)) - 1) % (MaxUint64 + 1)

\* The height GetMinimumHeight returns, window being recentlyAccepted once
\* Oldest has dropped what expired; the subtraction is that of uint64.
minimumHeight(window) ==
    IF UseCurrentHeight THEN mHeight
    ELSE IF window = << >> THEN mHeight
    ELSE (BlockHeight(Head(window)) - 1) % (MaxUint64 + 1)

\* manager.GetMinimumHeight
GetMinimumHeight ==
    \E expired \in IF UseCurrentHeight THEN {0} ELSE Expirable(recentlyAccepted) :
        LET window == DropOldest(recentlyAccepted, expired)
        IN /\ mQueries < MaxQueries
           /\ mQueries' = mQueries + 1
           /\ recentlyAccepted' = window
           /\ mRet' = [op |-> "GetMinimumHeight", height |-> minimumHeight(window),
                       currentHeight |-> mHeight, window |-> window]
           /\ UNCHANGED <<mHeight, mValidators, mWeightDiffs, mPublicKeyDiffs,
                          mTracked, caches, mHistory, UseCurrentHeight, mRead>>
           /\ UNCHANGED <<gossipVars, feeVars, execVars, clientVars, listVars>>

\* NewManager on the state of a node that is restarted: the caches and the
\* window start empty.
RestartManager ==
    /\ mHeight > 0
    /\ caches # EmptyMap \/ recentlyAccepted # << >>
    /\ caches' = EmptyMap
    /\ recentlyAccepted' = << >>
    /\ mRet' = [op |-> "NewManager"]
    /\ UNCHANGED <<mHeight, mValidators, mWeightDiffs, mPublicKeyDiffs, mTracked,
                   mHistory, mQueries, UseCurrentHeight, mRead>>
    /\ UNCHANGED <<gossipVars, feeVars, execVars, clientVars, listVars>>

NextManager ==
    \/ GetMinimumHeight
    \/ RestartManager
    \/ AcceptAddPrimaryValidator
    \/ AcceptRemovePrimaryValidator
    \/ AcceptAddSubnetValidator
    \/ AcceptRemoveSubnetValidator
    \/ GetValidatorSet

\* GetValidatorSet in two steps, with block acceptance in between. The
\* first step is the part under the accept read lock: the call gets its
\* cache and reads the current sets and the current height.
ReadCurrentValidatorSets ==
    \E targetHeight \in 0..(MaxHeight + 1), subnetID \in ManagerSubnets :
        /\ ~mRead.busy
        /\ mQueries < MaxQueries
        /\ mRead' = [busy |-> TRUE, targetHeight |-> targetHeight, subnetID |-> subnetID,
                     current |-> getCurrentValidatorSets]
        /\ caches' = getValidatorSetCache(subnetID)
        /\ UNCHANGED <<mHeight, mValidators, mWeightDiffs, mPublicKeyDiffs, mTracked,
                       mHistory, mQueries, mRet, UseCurrentHeight, recentlyAccepted>>
        /\ UNCHANGED <<gossipVars, feeVars, execVars, clientVars, listVars>>

\* finishGetValidatorSet that takes the current height anew.
finishGetValidatorSetNewHeight(read) ==
    IF read.subnetID = PrimaryNetworkID
    THEN makePrimaryNetworkValidatorSetOf([read.current EXCEPT !.height = mHeight],
                                          read.targetHeight)
    ELSE makeSubnetValidatorSetOf([read.current EXCEPT !.height = mHeight],
                                  read.targetHeight, read.subnetID)

\* What the call in flight returns: the diffs of the state as it is now are
\* applied to what the call read.
finishGetValidatorSet(read) ==
    IF read.subnetID = PrimaryNetworkID
    THEN makePrimaryNetworkValidatorSetOf(read.current, read.targetHeight)
    ELSE makeSubnetValidatorSetOf(read.current, read.targetHeight, read.subnetID)

\* The second step: the diffs are applied without the accept lock, the set
\* is cached and returned.
FinishGetValidatorSet ==
    /\ mRead.busy
    /\ mQueries' = mQueries + 1
    /\ mRet' = [op |-> "GetValidatorSet", targetHeight |-> mRead.targetHeight,
                subnetID |-> mRead.subnetID, currentHeight |-> mRead.current.height,
                err |-> finishGetValidatorSet(mRead).err,
                set |-> finishGetValidatorSet(mRead).set]
    /\ caches' = IF finishGetValidatorSet(mRead).err = "nil"
                 THEN CachePut(mRead.subnetID, mRead.targetHeight,
                               finishGetValidatorSet(mRead).set)
                 ELSE caches
    /\ mRead' = NoRead
    /\ UNCHANGED <<mHeight, mValidators, mWeightDiffs, mPublicKeyDiffs, mTracked,
                   mHistory, UseCurrentHeight, recentlyAccepted>>
    /\ UNCHANGED <<gossipVars, feeVars, execVars, clientVars, listVars>>

NextManagerConcurrent ==
    \/ AcceptAddPrimaryValidator
    \/ AcceptRemovePrimaryValidator
    \/ AcceptAddSubnetValidator
    \/ AcceptRemoveSubnetValidator
    \/ ReadCurrentValidatorSets
    \/ FinishGetValidatorSet

(***************************************************************************)
(* Standard transaction executor                                           *)
(*   vms/platformvm/txs/executor/standard_tx_executor.go                   *)
(*   vms/platformvm/txs/executor/staker_tx_verification.go                 *)
(* Time is counted in units of six hours.  A transaction is a record; its  *)
(* id is the record itself (the id is a hash of the transaction's bytes).  *)
(* The outcome of the collaborators that are interfaces of the backend     *)
(* (SyntacticVerify, Fx.VerifyPermission, the credential and amount part   *)
(* of FlowChecker.VerifySpend) is the field fault of the transaction.      *)
(***************************************************************************)
MaxTxs == 2

Nil == "nil"
MaxTime == 1000
MaxFutureStartTime == 4
MaxValidatorWeightFactor == 5
ApricotPhase3Time == 2
ContinuousStakingTime == 4
ChainTimes == {0, ApricotPhase3Time, ContinuousStakingTime}
MinValidatorStake == 1000
MaxValidatorStake == 5000
MinDelegatorStake == 1000
MinStakeDuration == 2
MaxStakeDuration == 4
InitialSupply == 100000
MinDelegationFee == 20000
RewardDivisor == 100

AVAXAssetID == "AVAX"
SubnetAssetID == "SUB"
PermissionedSubnet == "subnetP"
TransformedSubnet == "subnetT"
ExecNodeIDs == {"n1", "n2"}
EmptyNodeID == ""
PlatformChainSubnet == {"X", "C"}
ForeignChain == "foreign"

IsApricotPhase3Activated(timestamp) == timestamp >= ApricotPhase3Time
IsContinuousStakingActivated(timestamp) == timestamp >= ContinuousStakingTime

StakerTxKinds ==
    {"AddValidatorTx", "AddSubnetValidatorTx", "AddDelegatorTx",
     "AddPermissionlessValidatorTx", "AddPermissionlessDelegatorTx"}

BaseTx(kind, subnet, ins, fault) ==
    [kind |-> kind, subnet |-> subnet, nodeID |-> EmptyNodeID, wght |-> 0,
     start |-> 0, end |-> 0, delegationShares |-> 0, assetID |-> AVAXAssetID,
     ins |-> ins, outs |-> 1, target |-> {}, chain |-> "", imported |-> <<>>,
     exported |-> <<>>, maxStakeDuration |-> 0, creds |-> <<>>, fault |-> fault]

StakerTx(kind, subnet, nodeID, wght, start, end, ins, fault) ==
    [BaseTx(kind, subnet, ins, fault) EXCEPT
        !.nodeID = nodeID, !.wght = wght, !.start = start, !.end = end,
        !.delegationShares = MinDelegationFee,
        !.assetID = IF subnet = PrimaryNetworkID THEN AVAXAssetID ELSE SubnetAssetID]

GenesisTx == BaseTx("Genesis", PrimaryNetworkID, {}, "none")
GenesisValidatorTx ==
    StakerTx("AddValidatorTx", PrimaryNetworkID, "n1", 1000, 0, 12, {}, "none")
NoTx == BaseTx("", PrimaryNetworkID, {}, "none")
GenesisUTXOs == {<<GenesisTx, 0>>, <<GenesisTx, 1>>}
\* a tx of the X chain whose outputs were exported to this chain
XChainTx == BaseTx("XChainTx", PrimaryNetworkID, {}, "none")
\* UTXOID.InputID(): the id hashes (tx id, output index); the model keeps the
\* pair, of which the hash is an injective image
InputID(utxoID) == <<utxoID[1], utxoID[2]>>
InputSets == {{u} : u \in GenesisUTXOs}
FirstInput == {{<<GenesisTx, 0>>}}

\* tx.StakingPeriod(), tx.StartTime(), tx.EndTime()
StakingPeriod(tx) == tx.end - tx.start
\* the UTXOs avax.Produce makes of tx.Outs
ProducedUTXOs(tx) == {<<tx, i>> : i \in 0 .. (tx.outs - 1)}

\* ---- priorities (txs.Priority) -----------------------------------------
PendingPriority(tx) ==
    CASE tx.kind = "AddValidatorTx" -> "PrimaryNetworkValidatorPendingPriority"
      [] tx.kind = "AddDelegatorTx" -> "PrimaryNetworkDelegatorPendingPriority"
      [] tx.kind = "AddSubnetValidatorTx" -> "SubnetPermissionedValidatorPendingPriority"
      [] tx.kind = "AddPermissionlessValidatorTx" ->
            IF tx.subnet = PrimaryNetworkID
            THEN "PrimaryNetworkValidatorPendingPriority"
            ELSE "SubnetPermissionlessValidatorPendingPriority"
      [] tx.kind = "AddPermissionlessDelegatorTx" ->
            IF tx.subnet = PrimaryNetworkID
            THEN "PrimaryNetworkDelegatorPendingPriority"
            ELSE "SubnetPermissionlessDelegatorPendingPriority"

CurrentPriority(tx) ==
    CASE tx.kind = "AddValidatorTx" -> "PrimaryNetworkValidatorCurrentPriority"
      [] tx.kind = "AddDelegatorTx" -> "PrimaryNetworkDelegatorCurrentPriority"
      [] tx.kind = "AddSubnetValidatorTx" -> "SubnetPermissionedValidatorCurrentPriority"
      [] tx.kind = "AddPermissionlessValidatorTx" ->
            IF tx.subnet = PrimaryNetworkID
            THEN "PrimaryNetworkValidatorCurrentPriority"
            ELSE "SubnetPermissionlessValidatorCurrentPriority"
      [] tx.kind = "AddPermissionlessDelegatorTx" ->
            IF tx.subnet = PrimaryNetworkID
            THEN "PrimaryNetworkDelegatorCurrentPriority"
            ELSE "SubnetPermissionlessDelegatorCurrentPriority"

IsCurrentValidator(p) ==
    p \in {"PrimaryNetworkValidatorCurrentPriority",
           "SubnetPermissionedValidatorCurrentPriority",
           "SubnetPermissionlessValidatorCurrentPriority"}
IsPendingValidator(p) ==
    p \in {"PrimaryNetworkValidatorPendingPriority",
           "SubnetPermissionedValidatorPendingPriority",
           "SubnetPermissionlessValidatorPendingPriority"}
IsCurrentDelegator(p) ==
    p \in {"PrimaryNetworkDelegatorCurrentPriority",
           "SubnetPermissionlessDelegatorCurrentPriority"}
IsPendingDelegator(p) ==
    p \in {"PrimaryNetworkDelegatorPendingPriority",
           "SubnetPermissionlessDelegatorPendingPriority"}
IsValidator(p) == IsCurrentValidator(p) \/ IsPendingValidator(p)
IsDelegator(p) == IsCurrentDelegator(p) \/ IsPendingDelegator(p)
IsPermissionedValidator(p) ==
    p \in {"SubnetPermissionedValidatorCurrentPriority",
           "SubnetPermissionedValidatorPendingPriority"}

\* ---- state.Staker -------------------------------------------------------
NewPendingStaker(txID, tx) ==
    [txID |-> txID, nodeID |-> tx.nodeID, subnetID |-> tx.subnet,
     weight |-> tx.wght, startTime |-> tx.start, endTime |-> tx.end,
     earliestStopTime |-> tx.end, potentialReward |-> 0,
     priority |-> PendingPriority(tx)]

NewCurrentStaker(txID, tx, chainTime, endTimeBound, potentialReward) ==
    [txID |-> txID, nodeID |-> tx.nodeID, subnetID |-> tx.subnet,
     weight |-> tx.wght, startTime |-> chainTime,
     endTime |-> Min(chainTime + StakingPeriod(tx), endTimeBound),
     earliestStopTime |-> Min(chainTime + StakingPeriod(tx), endTimeBound),
     potentialReward |-> potentialReward,
     priority |-> CurrentPriority(tx)]

MarkStakerForRemovalInPlaceBeforeTime(staker, stopTime) ==
    [staker EXCEPT !.earliestStopTime = stopTime]

GenesisStaker ==
    NewCurrentStaker(GenesisValidatorTx, GenesisValidatorTx, 0, MaxTime, 0)

\* ---- state.Diff (the interface of spec section 4.6) -----------------------
\* The diff is the record State: timestamp, utxos, currentStakers,
\* pendingStakers, supplies (subnet -> current supply), subnets, chains,
\* transformations (subnet -> its TransformSubnetTx).
GetTimestamp(st) == st.timestamp
DeleteUTXO(st, utxoID) == [st EXCEPT !.utxos = @ \ {utxoID}]
AddUTXO(st, utxoID) == [st EXCEPT !.utxos = @ \cup {utxoID}]
PutCurrentValidator(st, staker) == [st EXCEPT !.currentStakers = @ \cup {staker}]
PutCurrentDelegator(st, staker) == [st EXCEPT !.currentStakers = @ \cup {staker}]
PutPendingValidator(st, staker) == [st EXCEPT !.pendingStakers = @ \cup {staker}]
PutPendingDelegator(st, staker) == [st EXCEPT !.pendingStakers = @ \cup {staker}]
DeleteCurrentValidator(st, staker) == [st EXCEPT !.currentStakers = @ \ {staker}]
DeletePendingValidator(st, staker) == [st EXCEPT !.pendingStakers = @ \ {staker}]
UpdateCurrentStaker(st, staker) ==
    [st EXCEPT !.currentStakers =
        {s \in @ : s.txID # staker.txID} \cup {staker}]
UpdateCurrentValidator(st, staker) == UpdateCurrentStaker(st, staker)
UpdateCurrentDelegator(st, staker) == UpdateCurrentStaker(st, staker)
HasCurrentSupply(st, subnetID) == subnetID \in DOMAIN st.supplies
GetCurrentSupply(st, subnetID) == st.supplies[subnetID]
SetCurrentSupply(st, subnetID, supply) ==
    [st EXCEPT !.supplies = MapPut(@, subnetID, supply)]
AddSubnet(st, tx) == [st EXCEPT !.subnets = @ \cup {tx}]
AddChain(st, tx) == [st EXCEPT !.chains = @ \cup {tx}]
AddSubnetTransformation(st, tx) ==
    [st EXCEPT !.transformations = MapPut(@, tx.subnet, tx)]
HasSubnetTransformation(st, subnetID) == subnetID \in DOMAIN st.transformations
HasSubnet(st, subnetID) == subnetID \in {PermissionedSubnet, TransformedSubnet}

CurrentValidators(st, subnetID, nodeID) ==
    {s \in st.currentStakers :
        IsValidator(s.priority) /\ s.subnetID = subnetID /\ s.nodeID = nodeID}
PendingValidators(st, subnetID, nodeID) ==
    {s \in st.pendingStakers :
        IsValidator(s.priority) /\ s.subnetID = subnetID /\ s.nodeID = nodeID}
HasCurrentValidator(st, subnetID, nodeID) == CurrentValidators(st, subnetID, nodeID) # {}
HasPendingValidator(st, subnetID, nodeID) == PendingValidators(st, subnetID, nodeID) # {}
GetCurrentValidator(st, subnetID, nodeID) ==
    CHOOSE s \in CurrentValidators(st, subnetID, nodeID) : TRUE
GetPendingValidator(st, subnetID, nodeID) ==
    CHOOSE s \in PendingValidators(st, subnetID, nodeID) : TRUE

\* GetValidator: the current validator of (subnet, node), else the pending one,
\* else database.ErrNotFound.
HasValidator(st, subnetID, nodeID) ==
    HasCurrentValidator(st, subnetID, nodeID) \/ HasPendingValidator(st, subnetID, nodeID)
GetValidator(st, subnetID, nodeID) ==
    IF HasCurrentValidator(st, subnetID, nodeID)
    THEN GetCurrentValidator(st, subnetID, nodeID)
    ELSE GetPendingValidator(st, subnetID, nodeID)

\* avax.Consume / avax.Produce
RECURSIVE ConsumeAll(_, _)
ConsumeAll(st, ins) ==
    IF ins = {} THEN st
    ELSE LET in == CHOOSE i \in ins : TRUE
         IN ConsumeAll(DeleteUTXO(st, in), ins \ {in})
Consume(st, ins) == ConsumeAll(st, ins)
RECURSIVE ProduceAll(_, _)
ProduceAll(st, outs) ==
    IF outs = {} THEN st
    ELSE LET out == CHOOSE o \in outs : TRUE
         IN ProduceAll(AddUTXO(st, out), outs \ {out})
Produce(st, txID, tx) == ProduceAll(st, ProducedUTXOs(tx))

\* FlowChecker.VerifySpend (spec section 4.3): every input is an unconsumed
\* UTXO of the state, and the credentials and amounts are in order.
VerifySpend(st, tx) == tx.ins \subseteq st.utxos /\ tx.fault # "flow"
SyntacticVerify(tx) == tx.fault # "syntactic"

\* verifySubnetAuthorization / verifyPoASubnetAuthorization: the subnet
\* exists, its owner signed, and (PoA) the subnet was not transformed.
verifySubnetAuthorization(st, tx) ==
    IF ~HasSubnet(st, tx.subnet) THEN "ErrNotFound"
    ELSE IF tx.fault = "auth" THEN "errUnauthorizedSubnetModification"
    ELSE Nil
verifyPoASubnetAuthorization(st, tx) ==
    IF verifySubnetAuthorization(st, tx) # Nil THEN verifySubnetAuthorization(st, tx)
    ELSE IF HasSubnetTransformation(st, tx.subnet) THEN "errIsImmutable"
    ELSE Nil

\* txs.BoundedBy
BoundedBy(stakerStart, stakerEnd, lowerBound, upperBound) ==
    /\ lowerBound <= stakerStart
    /\ stakerStart <= stakerEnd
    /\ stakerEnd <= upperBound

\* reward.Calculator.Calculate
Calculate(stakeDuration, weight, currentSupply) ==
    (stakeDuration * weight) \div RewardDivisor

\* canDelegate (spec section 4.4): the supremum, over the instants of the new
\* delegator's interval, of the validator's weight plus the weight of its
\* current and pending delegators staking at that instant, plus the new
\* weight, is at most the limit.
Delegators(st, validator) ==
    {s \in st.currentStakers \cup st.pendingStakers :
        /\ IsDelegator(s.priority)
        /\ s.subnetID = validator.subnetID
        /\ s.nodeID = validator.nodeID}
RECURSIVE SumWeights(_)
SumWeights(stakers) ==
    IF stakers = {} THEN 0
    ELSE LET s == CHOOSE x \in stakers : TRUE
         IN s.weight + SumWeights(stakers \ {s})
WeightAt(st, validator, t) ==
    validator.weight
    + SumWeights({d \in Delegators(st, validator) : d.startTime <= t /\ t <= d.endTime})
Instants(startTime, endTime) == startTime .. endTime
GetMaxWeight(st, validator, startTime, endTime) ==
    LET ws == {WeightAt(st, validator, t) : t \in Instants(startTime, endTime)}
    IN CHOOSE w \in ws : \A v \in ws : v <= w
canDelegate(st, validator, weightLimit, new) ==
    GetMaxWeight(st, validator, new.startTime, new.endTime) + new.weight <= weightLimit

\* ---- staker_tx_verification.go -------------------------------------------
\* Each verifier is the error it returns, Nil for none.

\* getValidatorRules / getDelegatorRules: the rules of the primary network
\* come from the config, those of another subnet from its TransformSubnetTx.
PrimaryRules ==
    [assetID |-> AVAXAssetID,
     minValidatorStake |-> MinValidatorStake, maxValidatorStake |-> MaxValidatorStake,
     minDelegatorStake |-> MinDelegatorStake,
     minStakeDuration |-> MinStakeDuration, maxStakeDuration |-> MaxStakeDuration,
     minDelegationFee |-> MinDelegationFee,
     maxValidatorWeightFactor |-> MaxValidatorWeightFactor]
TransformRules(transformSubnet) ==
    [assetID |-> SubnetAssetID,
     minValidatorStake |-> MinValidatorStake, maxValidatorStake |-> MaxValidatorStake,
     minDelegatorStake |-> MinDelegatorStake,
     minStakeDuration |-> MinStakeDuration,
     maxStakeDuration |-> transformSubnet.maxStakeDuration,
     minDelegationFee |-> MinDelegationFee,
     maxValidatorWeightFactor |-> MaxValidatorWeightFactor]
getRulesErr(st, subnetID) ==
    IF subnetID = PrimaryNetworkID \/ HasSubnetTransformation(st, subnetID)
    THEN Nil ELSE "ErrNotFound"
getRules(st, subnetID) ==
    IF subnetID = PrimaryNetworkID THEN PrimaryRules
    ELSE TransformRules(st.transformations[subnetID])
getValidatorRules(st, subnetID) == getRules(st, subnetID)
getDelegatorRules(st, subnetID) == getRules(st, subnetID)

\* the start time rules, before and after the other checks
StartsTooEarly(st, tx) ==
    /\ ~IsContinuousStakingActivated(GetTimestamp(st))
    /\ ~(GetTimestamp(st) < tx.start)
StartsTooLate(st, tx) ==
    /\ ~IsContinuousStakingActivated(GetTimestamp(st))
    /\ tx.start > GetTimestamp(st) + MaxFutureStartTime

\* the interval a subnet staker is checked with against the primary validator
StakerStart(st, tx) ==
    IF IsContinuousStakingActivated(GetTimestamp(st)) THEN GetTimestamp(st) ELSE tx.start
StakerEnd(st, tx) ==
    IF IsContinuousStakingActivated(GetTimestamp(st))
    THEN GetTimestamp(st) + StakingPeriod(tx) ELSE tx.end

\* the staker the delegator verifiers hand to canDelegate
NewStaker(st, tx) ==
    IF IsContinuousStakingActivated(GetTimestamp(st))
    THEN NewCurrentStaker(tx, tx, GetTimestamp(st), MaxTime, 0)
    ELSE NewPendingStaker(tx, tx)

\* verifyAddValidatorTx without the check that the node is not a validator yet
verifyAddValidatorTxNoDuplicateCheck(st, tx) ==
    IF ~SyntacticVerify(tx) THEN "errSyntacticVerify"
    ELSE IF ~Bootstrapped THEN Nil
    ELSE IF StartsTooEarly(st, tx) THEN "ErrTimestampNotBeforeStartTime"
    ELSE IF ~VerifySpend(st, tx) THEN "ErrFlowCheckFailed"
    ELSE IF StartsTooLate(st, tx) THEN "ErrFutureStakeTime"
    ELSE Nil
verifyAddValidatorTx(st, tx) ==
    IF ~SyntacticVerify(tx) THEN "errSyntacticVerify"
    ELSE IF tx.wght < MinValidatorStake THEN "ErrWeightTooSmall"
    ELSE IF tx.wght > MaxValidatorStake THEN "ErrWeightTooLarge"
    ELSE IF tx.delegationShares < MinDelegationFee THEN "ErrInsufficientDelegationFee"
    ELSE IF StakingPeriod(tx) < MinStakeDuration THEN "ErrStakeTooShort"
    ELSE IF StakingPeriod(tx) > MaxStakeDuration THEN "ErrStakeTooLong"
    ELSE IF ~Bootstrapped THEN Nil
    ELSE IF StartsTooEarly(st, tx) THEN "ErrTimestampNotBeforeStartTime"
    ELSE IF HasValidator(st, PrimaryNetworkID, tx.nodeID) THEN "ErrAlreadyValidator"
    ELSE IF ~VerifySpend(st, tx) THEN "ErrFlowCheckFailed"
    ELSE IF StartsTooLate(st, tx) THEN "ErrFutureStakeTime"
    ELSE Nil

\* verifyAddSubnetValidatorTx without the comparison with the primary validator
verifyAddSubnetValidatorTxNoSubsetCheck(st, tx) ==
    IF ~SyntacticVerify(tx) THEN "errSyntacticVerify"
    ELSE IF StakingPeriod(tx) < MinStakeDuration THEN "ErrStakeTooShort"
    ELSE IF StakingPeriod(tx) > MaxStakeDuration THEN "ErrStakeTooLong"
    ELSE IF ~Bootstrapped THEN Nil
    ELSE IF StartsTooEarly(st, tx) THEN "ErrTimestampNotBeforeStartTime"
    ELSE IF HasValidator(st, tx.subnet, tx.nodeID) THEN "ErrDuplicateValidator"
    ELSE IF ~HasValidator(st, PrimaryNetworkID, tx.nodeID) THEN "ErrNotValidator"
    ELSE IF verifyPoASubnetAuthorization(st, tx) # Nil
         THEN verifyPoASubnetAuthorization(st, tx)
    ELSE IF ~VerifySpend(st, tx) THEN "ErrFlowCheckFailed"
    ELSE IF StartsTooLate(st, tx) THEN "ErrFutureStakeTime"
    ELSE Nil

verifyAddSubnetValidatorTx(st, tx) ==
    IF ~SyntacticVerify(tx) THEN "errSyntacticVerify"
    ELSE IF StakingPeriod(tx) < MinStakeDuration THEN "ErrStakeTooShort"
    ELSE IF StakingPeriod(tx) > MaxStakeDuration THEN "ErrStakeTooLong"
    ELSE IF ~Bootstrapped THEN Nil
    ELSE IF StartsTooEarly(st, tx) THEN "ErrTimestampNotBeforeStartTime"
    ELSE IF HasValidator(st, tx.subnet, tx.nodeID) THEN "ErrDuplicateValidator"
    ELSE IF ~HasValidator(st, PrimaryNetworkID, tx.nodeID) THEN "ErrNotValidator"
    ELSE IF ~BoundedBy(StakerStart(st, tx), StakerEnd(st, tx),
                       GetValidator(st, PrimaryNetworkID, tx.nodeID).startTime,
                       GetValidator(st, PrimaryNetworkID, tx.nodeID).endTime)
         THEN "ErrValidatorSubset"
    ELSE IF verifyPoASubnetAuthorization(st, tx) # Nil
         THEN verifyPoASubnetAuthorization(st, tx)
    ELSE IF ~VerifySpend(st, tx) THEN "ErrFlowCheckFailed"
    ELSE IF StartsTooLate(st, tx) THEN "ErrFutureStakeTime"
    ELSE Nil

removeSubnetValidatorValidation(st, tx) ==
    IF ~SyntacticVerify(tx) THEN "errSyntacticVerify"
    ELSE IF ~(HasCurrentValidator(st, tx.subnet, tx.nodeID)
              \/ HasPendingValidator(st, tx.subnet, tx.nodeID))
         THEN "ErrNotValidator"
    ELSE IF ~IsPermissionedValidator(GetValidator(st, tx.subnet, tx.nodeID).priority)
         THEN "ErrRemovePermissionlessValidator"
    ELSE IF ~Bootstrapped THEN Nil
    ELSE IF verifySubnetAuthorization(st, tx) # Nil
         THEN verifySubnetAuthorization(st, tx)
    ELSE IF ~VerifySpend(st, tx) THEN "ErrFlowCheckFailed"
    ELSE Nil

\* the cap of verifyAddDelegatorTx without the Apricot Phase 3 bound
AddDelegatorMaximumWeightUncapped(st, validator) ==
    Mul64(MaxValidatorWeightFactor, validator.weight)
\* the cap on the weight of a validator and its delegators
AddDelegatorMaximumWeight(st, validator) ==
    IF IsApricotPhase3Activated(GetTimestamp(st))
    THEN Min(Mul64(MaxValidatorWeightFactor, validator.weight), MaxValidatorStake)
    ELSE Mul64(MaxValidatorWeightFactor, validator.weight)

verifyAddDelegatorTx(st, tx) ==
    IF ~SyntacticVerify(tx) THEN "errSyntacticVerify"
    ELSE IF StakingPeriod(tx) < MinStakeDuration THEN "ErrStakeTooShort"
    ELSE IF StakingPeriod(tx) > MaxStakeDuration THEN "ErrStakeTooLong"
    ELSE IF tx.wght < MinDelegatorStake THEN "ErrWeightTooSmall"
    ELSE IF ~HasValidator(st, PrimaryNetworkID, tx.nodeID) THEN "ErrNotFound"
    ELSE IF ~Bootstrapped THEN Nil
    ELSE IF StartsTooEarly(st, tx) THEN "ErrTimestampNotBeforeStartTime"
    ELSE IF Mul64(MaxValidatorWeightFactor,
                  GetValidator(st, PrimaryNetworkID, tx.nodeID).weight) = -1
         THEN "ErrStakeOverflow"
    ELSE IF ~canDelegate(st, GetValidator(st, PrimaryNetworkID, tx.nodeID),
                         AddDelegatorMaximumWeight(st, GetValidator(st, PrimaryNetworkID, tx.nodeID)),
                         NewStaker(st, tx))
         THEN "ErrOverDelegated"
    ELSE IF ~VerifySpend(st, tx) THEN "ErrFlowCheckFailed"
    ELSE IF StartsTooLate(st, tx) THEN "ErrFutureStakeTime"
    ELSE Nil

verifyAddPermissionlessValidatorTx(st, tx) ==
    IF ~SyntacticVerify(tx) THEN "errSyntacticVerify"
    ELSE IF ~Bootstrapped THEN Nil
    ELSE IF StartsTooEarly(st, tx) THEN "ErrTimestampNotBeforeStartTime"
    ELSE IF getRulesErr(st, tx.subnet) # Nil THEN getRulesErr(st, tx.subnet)
    ELSE IF tx.wght < getValidatorRules(st, tx.subnet).minValidatorStake
         THEN "ErrWeightTooSmall"
    ELSE IF tx.wght > getValidatorRules(st, tx.subnet).maxValidatorStake
         THEN "ErrWeightTooLarge"
    ELSE IF tx.delegationShares < getValidatorRules(st, tx.subnet).minDelegationFee
         THEN "ErrInsufficientDelegationFee"
    ELSE IF StakingPeriod(tx) < getValidatorRules(st, tx.subnet).minStakeDuration
         THEN "ErrStakeTooShort"
    ELSE IF StakingPeriod(tx) > getValidatorRules(st, tx.subnet).maxStakeDuration
         THEN "ErrStakeTooLong"
    ELSE IF tx.assetID # getValidatorRules(st, tx.subnet).assetID
         THEN "ErrWrongStakedAssetID"
    ELSE IF HasValidator(st, tx.subnet, tx.nodeID) THEN "ErrDuplicateValidator"
    ELSE IF tx.subnet # PrimaryNetworkID
            /\ ~HasValidator(st, PrimaryNetworkID, tx.nodeID)
         THEN "ErrNotFound"
    ELSE IF tx.subnet # PrimaryNetworkID
            /\ ~BoundedBy(StakerStart(st, tx), StakerEnd(st, tx),
                          GetValidator(st, PrimaryNetworkID, tx.nodeID).startTime,
                          GetValidator(st, PrimaryNetworkID, tx.nodeID).endTime)
         THEN "ErrValidatorSubset"
    ELSE IF ~VerifySpend(st, tx) THEN "ErrFlowCheckFailed"
    ELSE IF StartsTooLate(st, tx) THEN "ErrFutureStakeTime"
    ELSE Nil

\* the cap of the permissionless delegator: an overflowing product saturates
AddPermissionlessDelegatorMaximumWeight(delegatorRules, validator) ==
    LET product == Mul64(delegatorRules.maxValidatorWeightFactor, validator.weight)
    IN Min(IF product = -1 THEN MaxUint64 ELSE product,
           delegatorRules.maxValidatorStake)

verifyAddPermissionlessDelegatorTx(st, tx) ==
    IF ~SyntacticVerify(tx) THEN "errSyntacticVerify"
    ELSE IF ~HasValidator(st, tx.subnet, tx.nodeID) THEN "ErrNotFound"
    ELSE IF ~Bootstrapped THEN Nil
    ELSE IF StartsTooEarly(st, tx) THEN "errChainTimestampNotBeforeStartTimeUnwrapped"
    ELSE IF getRulesErr(st, tx.subnet) # Nil THEN getRulesErr(st, tx.subnet)
    ELSE IF tx.wght < getDelegatorRules(st, tx.subnet).minDelegatorStake
         THEN "ErrWeightTooSmall"
    ELSE IF StakingPeriod(tx) < getDelegatorRules(st, tx.subnet).minStakeDuration
         THEN "ErrStakeTooShort"
    ELSE IF StakingPeriod(tx) > getDelegatorRules(st, tx.subnet).maxStakeDuration
         THEN "ErrStakeTooLong"
    ELSE IF tx.assetID # getDelegatorRules(st, tx.subnet).assetID
         THEN "ErrWrongStakedAssetID"
    ELSE IF ~canDelegate(st, GetValidator(st, tx.subnet, tx.nodeID),
                         AddPermissionlessDelegatorMaximumWeight(
                             getDelegatorRules(st, tx.subnet),
                             GetValidator(st, tx.subnet, tx.nodeID)),
                         NewStaker(st, tx))
         THEN "ErrOverDelegated"
    ELSE IF tx.subnet # PrimaryNetworkID
            /\ IsPermissionedValidator(GetValidator(st, tx.subnet, tx.nodeID).priority)
         THEN "ErrDelegateToPermissionedValidator"
    ELSE IF ~VerifySpend(st, tx) THEN "ErrFlowCheckFailed"
    ELSE IF StartsTooLate(st, tx) THEN "ErrFutureStakeTime"
    ELSE Nil

StakersToStop(st, tx) ==
    {s \in st.currentStakers : s.txID \in tx.target}

\* verifyStopStakerAuthorization: there is a credential, and the last one
\* satisfies the owner of the staker, who depends on the kind of its tx; the
\* other credentials are returned for the flow check. A credential is the
\* name of the owner who signed it.
StakerOwner(stakerTx) ==
    CASE stakerTx.kind \in {"AddValidatorTx", "AddPermissionlessValidatorTx"}
            -> "validationRewardsOwner"
      [] stakerTx.kind \in {"AddDelegatorTx", "AddPermissionlessDelegatorTx"}
            -> "rewardsOwner"
      [] stakerTx.kind = "AddSubnetValidatorTx" -> "subnetOwner"
      [] OTHER -> "unhandled"
StakerOwners == {"validationRewardsOwner", "rewardsOwner", "subnetOwner"}
VerifyPermission(stakerCred, stakerOwner) == stakerCred = stakerOwner
verifyStopStakerAuthorization(st, tx) ==
    IF Len(tx.creds) = 0 THEN "errWrongNumberOfCredentials"
    ELSE IF ~VerifyPermission(tx.creds[Len(tx.creds)],
                              StakerOwner((CHOOSE s \in StakersToStop(st, tx) : TRUE).txID))
         THEN "ErrUnauthorizedStakerStopping"
    ELSE Nil
baseTxCreds(tx) == SubSeq(tx.creds, 1, Len(tx.creds) - 1)
\* FlowChecker.VerifySpend with the credentials it is handed: one per input
InputCreds(tx) == [i \in 1 .. Cardinality(tx.ins) |-> "inputOwner"]
VerifySpendWith(st, tx, creds) == VerifySpend(st, tx) /\ creds = InputCreds(tx)


\* verifyStopStakerTx without the fork check
verifyStopStakerTxAnyFork(st, tx) ==
    IF ~SyntacticVerify(tx) THEN "errSyntacticVerify"
    ELSE IF StakersToStop(st, tx) = {} THEN "errStakerNotFound"
    ELSE IF Bootstrapped /\ verifyStopStakerAuthorization(st, tx) # Nil
         THEN verifyStopStakerAuthorization(st, tx)
    ELSE IF Bootstrapped /\ ~VerifySpendWith(st, tx, baseTxCreds(tx))
         THEN "ErrFlowCheckFailed"
    ELSE Nil

verifyStopStakerTx(st, tx) ==
    IF ~IsContinuousStakingActivated(GetTimestamp(st)) THEN "errWrongFork"
    ELSE IF ~SyntacticVerify(tx) THEN "errSyntacticVerify"
    ELSE IF StakersToStop(st, tx) = {} THEN "errStakerNotFound"
    ELSE IF Bootstrapped /\ verifyStopStakerAuthorization(st, tx) # Nil
         THEN verifyStopStakerAuthorization(st, tx)
    ELSE IF Bootstrapped /\ ~VerifySpendWith(st, tx, baseTxCreds(tx))
         THEN "ErrFlowCheckFailed"
    ELSE Nil
\* verifyStopStakerTx returning the staker to stop alone
StopStakerResultNoCascade(st, tx) ==
    {CHOOSE s \in StakersToStop(st, tx) : TRUE}

\* the stakers verifyStopStakerTx returns: the staker to stop and, for a
\* primary network validator, every other current staker of its node
StopStakerResult(st, tx) ==
    LET stakerToStop == CHOOSE s \in StakersToStop(st, tx) : TRUE
    IN IF ~IsValidator(stakerToStop.priority) \/ stakerToStop.subnetID # PrimaryNetworkID
       THEN {stakerToStop}
       ELSE {stakerToStop} \cup
            {s \in st.currentStakers :
                s.nodeID = stakerToStop.nodeID /\ s.txID # stakerToStop.txID}
StopTime(st, tx) ==
    (CHOOSE s \in StakersToStop(st, tx) : TRUE).earliestStopTime

\* ---- standard_tx_executor.go ---------------------------------------------
\* The result of a visitor method: the diff it leaves, the error it returns
\* and the outputs of the executor (OnAccept, Inputs, AtomicRequests).
Result(st, err, onAccept, inputs, atomicRequests) ==
    [state |-> st, err |-> err, onAccept |-> onAccept, inputs |-> inputs,
     atomicRequests |-> atomicRequests]
Fail(st, err) == Result(st, err, {}, {}, EmptyMap)
Ok(st) == Result(st, Nil, {}, {}, EmptyMap)

\* addStakerFromStakerTx: [err, state]
PutStaker(st, staker) ==
    CASE IsCurrentValidator(staker.priority) -> PutCurrentValidator(st, staker)
      [] IsCurrentDelegator(staker.priority) -> PutCurrentDelegator(st, staker)
      [] IsPendingValidator(staker.priority) -> PutPendingValidator(st, staker)
      [] IsPendingDelegator(staker.priority) -> PutPendingDelegator(st, staker)

\* addStakerFromStakerTx that also files a pending staker among the current ones
addStakerFromStakerTxBothSets(st, tx, chainTime, endTimeBound) ==
    IF ~IsContinuousStakingActivated(chainTime)
    THEN [err |-> Nil,
          state |-> [PutStaker(st, NewPendingStaker(tx, tx)) EXCEPT
                        !.currentStakers = @ \cup {NewPendingStaker(tx, tx)}]]
    ELSE [err |-> Nil,
          state |-> PutStaker(st, NewCurrentStaker(tx, tx, chainTime, endTimeBound, 0))]
addStakerFromStakerTx(st, tx, chainTime, endTimeBound) ==
    IF ~IsContinuousStakingActivated(chainTime)
    THEN [err |-> Nil, state |-> PutStaker(st, NewPendingStaker(tx, tx))]
    ELSE IF CurrentPriority(tx) = "SubnetPermissionedValidatorCurrentPriority"
    THEN [err |-> Nil,
          state |-> PutStaker(st, NewCurrentStaker(tx, tx, chainTime, endTimeBound, 0))]
    ELSE IF ~HasCurrentSupply(st, tx.subnet) \/ getRulesErr(st, tx.subnet) # Nil
    THEN [err |-> "ErrNotFound", state |-> st]
    ELSE LET currentSupply == GetCurrentSupply(st, tx.subnet)
             potentialReward == Calculate(StakingPeriod(tx), tx.wght, currentSupply)
             updatedSupply == (currentSupply + potentialReward) % (MaxUint64 + 1)
             supplied == SetCurrentSupply(st, tx.subnet, updatedSupply)
         IN [err |-> Nil,
             state |-> PutStaker(supplied,
                          NewCurrentStaker(tx, tx, chainTime, endTimeBound, potentialReward))]

\* the tail shared by the staker visitors: add the staker, then the UTXOs
AddStakerThenSpend(st, tx, endTimeBound, consume) ==
    LET added == addStakerFromStakerTx(st, tx, GetTimestamp(st), endTimeBound)
    IN IF added.err # Nil THEN Fail(added.state, added.err)
       ELSE Ok(Produce(IF consume THEN Consume(added.state, tx.ins) ELSE added.state,
                       tx, tx))

execAddValidatorTx(st, tx) ==
    IF tx.nodeID = EmptyNodeID THEN Fail(st, "errEmptyNodeID")
    ELSE IF verifyAddValidatorTx(st, tx) # Nil THEN Fail(st, verifyAddValidatorTx(st, tx))
    ELSE AddStakerThenSpend(st, tx, MaxTime, TRUE)

execAddSubnetValidatorTx(st, tx) ==
    IF verifyAddSubnetValidatorTx(st, tx) # Nil
    THEN Fail(st, verifyAddSubnetValidatorTx(st, tx))
    ELSE AddStakerThenSpend(st, tx, GetTimestamp(st) + StakingPeriod(tx), FALSE)

\* AddDelegatorTx that consumes the inputs before it verifies
execAddDelegatorTxSpendsFirst(st, tx) ==
    IF verifyAddDelegatorTx(st, tx) # Nil
    THEN Fail(Consume(st, tx.ins), verifyAddDelegatorTx(st, tx))
    ELSE AddStakerThenSpend(st, tx,
            GetValidator(st, PrimaryNetworkID, tx.nodeID).endTime, TRUE)
execAddDelegatorTx(st, tx) ==
    IF verifyAddDelegatorTx(st, tx) # Nil THEN Fail(st, verifyAddDelegatorTx(st, tx))
    ELSE AddStakerThenSpend(st, tx,
            GetValidator(st, PrimaryNetworkID, tx.nodeID).endTime, TRUE)

execAddPermissionlessValidatorTx(st, tx) ==
    IF verifyAddPermissionlessValidatorTx(st, tx) # Nil
    THEN Fail(st, verifyAddPermissionlessValidatorTx(st, tx))
    ELSE AddStakerThenSpend(st, tx,
            IF tx.subnet = PrimaryNetworkID THEN MaxTime
            ELSE GetTimestamp(st) + StakingPeriod(tx), TRUE)

execAddPermissionlessDelegatorTx(st, tx) ==
    IF verifyAddPermissionlessDelegatorTx(st, tx) # Nil
    THEN Fail(st, verifyAddPermissionlessDelegatorTx(st, tx))
    ELSE AddStakerThenSpend(st, tx, GetValidator(st, tx.subnet, tx.nodeID).endTime, TRUE)

execRemoveSubnetValidatorTx(st, tx) ==
    IF removeSubnetValidatorValidation(st, tx) # Nil
    THEN Fail(st, removeSubnetValidatorValidation(st, tx))
    ELSE LET removed ==
                IF HasCurrentValidator(st, tx.subnet, tx.nodeID)
                THEN DeleteCurrentValidator(st, GetCurrentValidator(st, tx.subnet, tx.nodeID))
                ELSE DeletePendingValidator(st, GetPendingValidator(st, tx.subnet, tx.nodeID))
         IN Ok(Produce(Consume(removed, tx.ins), tx, tx))

RECURSIVE StopAll(_, _, _)
StopAll(st, stakers, stopTime) ==
    IF stakers = {} THEN st
    ELSE LET toStop == CHOOSE s \in stakers : TRUE
             marked == MarkStakerForRemovalInPlaceBeforeTime(toStop, stopTime)
         IN StopAll(IF IsValidator(toStop.priority)
                    THEN UpdateCurrentValidator(st, marked)
                    ELSE UpdateCurrentDelegator(st, marked),
                    stakers \ {toStop}, stopTime)

execStopStakerTx(st, tx) ==
    IF verifyStopStakerTx(st, tx) # Nil THEN Fail(st, verifyStopStakerTx(st, tx))
    ELSE Ok(Produce(Consume(StopAll(st, StopStakerResult(st, tx), StopTime(st, tx)),
                            tx.ins), tx, tx))

\* CreateChainTx that sets the callback before the flow check
execCreateChainTxEarlyCallback(st, tx) ==
    IF ~SyntacticVerify(tx) THEN Fail(st, "errSyntacticVerify")
    ELSE IF verifyPoASubnetAuthorization(st, tx) # Nil
         THEN Fail(st, verifyPoASubnetAuthorization(st, tx))
    ELSE IF ~VerifySpend(st, tx)
         THEN Result(st, "ErrFlowCheckFailed", {<<"CreateChain", tx>>}, {}, EmptyMap)
    ELSE Result(AddChain(Produce(Consume(st, tx.ins), tx, tx), tx), Nil,
                {<<"CreateChain", tx>>}, {}, EmptyMap)

execCreateChainTx(st, tx) ==
    IF ~SyntacticVerify(tx) THEN Fail(st, "errSyntacticVerify")
    ELSE IF verifyPoASubnetAuthorization(st, tx) # Nil
         THEN Fail(st, verifyPoASubnetAuthorization(st, tx))
    ELSE IF ~VerifySpend(st, tx) THEN Fail(st, "ErrFlowCheckFailed")
    ELSE Result(AddChain(Produce(Consume(st, tx.ins), tx, tx), tx), Nil,
                {<<"CreateChain", tx>>}, {}, EmptyMap)

execCreateSubnetTx(st, tx) ==
    IF ~SyntacticVerify(tx) THEN Fail(st, "errSyntacticVerify")
    ELSE IF ~VerifySpend(st, tx) THEN Fail(st, "ErrFlowCheckFailed")
    ELSE Ok(AddSubnet(Produce(Consume(st, tx.ins), tx, tx), tx))

\* verify.SameSubnet and the UTXOs held by shared memory
SameSubnet(chainID) == chainID \in PlatformChainSubnet
\* SharedMemory.Get(chain, ids): an error unless the chain holds every id
InitialSharedMemory ==
    [c \in PlatformChainSubnet \cup {ForeignChain} |->
        IF c = "X" THEN {InputID(<<XChainTx, 0>>), InputID(<<XChainTx, 1>>)} ELSE {}]
SharedMemoryGet(chain, utxoIDs) ==
    \A i \in DOMAIN utxoIDs : utxoIDs[i] \in SharedMemory[chain]
ImportedIDs(tx) == [i \in DOMAIN tx.imported |-> InputID(tx.imported[i])]
Range(seq) == {seq[i] : i \in DOMAIN seq}

\* ImportTx that requests the removal of the first imported input only
execImportTxFirstRequest(st, tx) ==
    IF ~SyntacticVerify(tx) THEN Fail(st, "errSyntacticVerify")
    ELSE IF Bootstrapped /\ ~SameSubnet(tx.chain)
         THEN Result(st, "ErrMismatchedSubnetIDs", {}, Range(ImportedIDs(tx)), EmptyMap)
    ELSE IF Bootstrapped /\ ~SharedMemoryGet(tx.chain, ImportedIDs(tx))
         THEN Result(st, "errSharedMemoryGet", {}, Range(ImportedIDs(tx)), EmptyMap)
    ELSE IF Bootstrapped /\ ~VerifySpend(st, tx)
         THEN Result(st, "ErrFlowCheckFailed", {}, Range(ImportedIDs(tx)), EmptyMap)
    ELSE Result(Produce(Consume(st, tx.ins), tx, tx), Nil, {}, Range(ImportedIDs(tx)),
                [c \in {tx.chain} |->
                    [RemoveRequests |-> SubSeq(ImportedIDs(tx), 1, 1),
                     PutRequests |-> <<>>]])

\* ImportTx without the check that the source chain is in the same subnet
execImportTxAnySubnet(st, tx) ==
    IF ~SyntacticVerify(tx) THEN Fail(st, "errSyntacticVerify")
    ELSE IF Bootstrapped /\ ~VerifySpend(st, tx)
         THEN Result(st, "ErrFlowCheckFailed", {}, Range(ImportedIDs(tx)), EmptyMap)
    ELSE Result(Produce(Consume(st, tx.ins), tx, tx), Nil, {}, Range(ImportedIDs(tx)),
                [c \in {tx.chain} |->
                    [RemoveRequests |-> ImportedIDs(tx), PutRequests |-> <<>>]])

execImportTx(st, tx) ==
    IF ~SyntacticVerify(tx) THEN Fail(st, "errSyntacticVerify")
    ELSE IF Bootstrapped /\ ~SameSubnet(tx.chain)
         THEN Result(st, "ErrMismatchedSubnetIDs", {}, Range(ImportedIDs(tx)), EmptyMap)
    ELSE IF Bootstrapped /\ ~SharedMemoryGet(tx.chain, ImportedIDs(tx))
         THEN Result(st, "errSharedMemoryGet", {}, Range(ImportedIDs(tx)), EmptyMap)
    ELSE IF Bootstrapped /\ ~(tx.ins \subseteq st.utxos)
         THEN Result(st, "errGetUTXO", {}, Range(ImportedIDs(tx)), EmptyMap)
    ELSE IF Bootstrapped /\ tx.fault = "flow"
         THEN Result(st, "ErrFlowCheckFailed", {}, Range(ImportedIDs(tx)), EmptyMap)
    ELSE Result(Produce(Consume(st, tx.ins), tx, tx), Nil, {}, Range(ImportedIDs(tx)),
                [c \in {tx.chain} |->
                    [RemoveRequests |-> ImportedIDs(tx), PutRequests |-> <<>>]])

\* txs.Codec.Marshal of a UTXO, and its inverse
Marshal(utxo) == <<"codec", utxo>>
Unmarshal(bytes) == bytes[2]
\* the element of the i-th exported output, numbered as a local output
ExportedElementLocalIndex(tx, i) ==
    LET utxo == [UTXOID |-> <<tx, i - 1>>,
                 Asset |-> tx.exported[i].assetID,
                 Out |-> tx.exported[i]]
    IN [Key |-> InputID(utxo.UTXOID),
        Value |-> Marshal(utxo),
        Traits |-> tx.exported[i].addrs]

\* the element ExportTx puts for the i-th exported output
ExportedElement(tx, i) ==
    LET utxo == [UTXOID |-> <<tx, tx.outs + (i - 1)>>,
                 Asset |-> tx.exported[i].assetID,
                 Out |-> tx.exported[i]]
    IN [Key |-> InputID(utxo.UTXOID),
        Value |-> Marshal(utxo),
        Traits |-> tx.exported[i].addrs]

execExportTx(st, tx) ==
    IF ~SyntacticVerify(tx) THEN Fail(st, "errSyntacticVerify")
    ELSE IF Bootstrapped /\ ~SameSubnet(tx.chain) THEN Fail(st, "ErrMismatchedSubnetIDs")
    ELSE IF ~VerifySpend(st, tx) THEN Fail(st, "ErrFlowCheckFailed")
    ELSE Result(Produce(Consume(st, tx.ins), tx, tx), Nil, {}, {},
                [c \in {tx.chain} |->
                    [RemoveRequests |-> <<>>,
                     PutRequests |-> [i \in DOMAIN tx.exported |-> ExportedElement(tx, i)]]])

execTransformSubnetTx(st, tx) ==
    IF ~SyntacticVerify(tx) THEN Fail(st, "errSyntacticVerify")
    ELSE IF tx.maxStakeDuration > MaxStakeDuration THEN Fail(st, "errMaxStakeDurationTooLarge")
    ELSE IF verifyPoASubnetAuthorization(st, tx) # Nil
         THEN Fail(st, verifyPoASubnetAuthorization(st, tx))
    ELSE IF ~VerifySpend(st, tx) THEN Fail(st, "ErrFlowCheckFailed")
    ELSE Ok(SetCurrentSupply(
                AddSubnetTransformation(Produce(Consume(st, tx.ins), tx, tx), tx),
                tx.subnet, InitialSupply))

\* ---- the transactions handed to the executor ------------------------------
\* A period is <<offset of the start time from the chain time, staking
\* period>>.  A bootstrapping node re-executes the txs of accepted blocks: one
\* period and one input are enough for them.
ValidatorPeriods == {<<0, 2>>, <<1, 4>>, <<4, 2>>, <<5, 2>>}
DelegatorPeriods == {<<0, 2>>, <<1, 2>>, <<4, 2>>, <<5, 2>>}
ReplayedPeriods == {<<1, 2>>}
ValidatorWeights == {3000}
DelegatorWeights == {1000, 1001, 3000}
LeastOf(weights) == CHOOSE w \in weights : \A v \in weights : w <= v

StakerTxs(kind, subnets, nodes, weights, periods, inputs, faults, t) ==
    {StakerTx(kind, s, n, w, t + p[1], t + p[1] + p[2], i, "none") :
        s \in subnets, n \in nodes, w \in weights,
        p \in IF Bootstrapped THEN periods ELSE ReplayedPeriods,
        i \in IF Bootstrapped THEN inputs ELSE FirstInput}
    \cup
    {StakerTx(kind, s, n, LeastOf(weights), t + 1, t + 3, i, f) :
        s \in subnets, n \in nodes, i \in FirstInput, f \in faults}

AddValidatorTxs(t) ==
    StakerTxs("AddValidatorTx", {PrimaryNetworkID}, ExecNodeIDs, ValidatorWeights,
              ValidatorPeriods, FirstInput, {"syntactic", "flow"}, t)
AddSubnetValidatorTxs(t) ==
    StakerTxs("AddSubnetValidatorTx", {PermissionedSubnet}, ExecNodeIDs, {1},
              ValidatorPeriods, InputSets, {"syntactic", "auth", "flow"}, t)
AddDelegatorTxs(t) ==
    StakerTxs("AddDelegatorTx", {PrimaryNetworkID}, ExecNodeIDs, DelegatorWeights,
              DelegatorPeriods, InputSets, {"syntactic", "flow"}, t)
AddPermissionlessValidatorTxs(t) ==
    StakerTxs("AddPermissionlessValidatorTx", {PrimaryNetworkID, TransformedSubnet},
              ExecNodeIDs, ValidatorWeights, ValidatorPeriods, FirstInput,
              {"syntactic", "flow"}, t)
AddPermissionlessDelegatorTxs(t) ==
    StakerTxs("AddPermissionlessDelegatorTx", {PrimaryNetworkID, TransformedSubnet},
              {"n1"}, {1000, 3000}, DelegatorPeriods, InputSets,
              {"syntactic", "flow"}, t)

SubnetTxs(kind, faults) ==
    {BaseTx(kind, s, i, "none") :
        s \in {PermissionedSubnet, TransformedSubnet}, i \in FirstInput}
    \cup {BaseTx(kind, PermissionedSubnet, i, f) : i \in FirstInput, f \in faults}
CreateChainTxs == SubnetTxs("CreateChainTx", {"syntactic", "auth", "flow"})
CreateSubnetTxs ==
    {BaseTx("CreateSubnetTx", PrimaryNetworkID, i, f) :
        i \in FirstInput, f \in {"none", "syntactic", "flow"}}
TransformSubnetTxs ==
    {[tx EXCEPT !.maxStakeDuration = MaxStakeDuration] :
        tx \in SubnetTxs("TransformSubnetTx", {"syntactic", "auth", "flow"})}
    \cup
    {[BaseTx("TransformSubnetTx", PermissionedSubnet, i, "none")
        EXCEPT !.maxStakeDuration = MaxStakeDuration + 1] : i \in FirstInput}
RemoveSubnetValidatorTxs ==
    {[tx EXCEPT !.nodeID = n] :
        tx \in SubnetTxs("RemoveSubnetValidatorTx", {"syntactic", "auth", "flow"}),
        n \in ExecNodeIDs}
\* A tx replayed before bootstrapping is done was accepted, so its chain is
\* in the subnet of this chain.
OfferedChains == IF Bootstrapped THEN {"X", ForeignChain} ELSE {"X"}
ImportTxs ==
    {[BaseTx("ImportTx", PrimaryNetworkID, i, "none") EXCEPT !.chain = c, !.imported = m] :
        i \in FirstInput, c \in OfferedChains,
        m \in {<<<<XChainTx, 0>>>>, <<<<XChainTx, 0>>, <<XChainTx, 1>>>>, <<<<XChainTx, 2>>>>}}
    \cup
    {[BaseTx("ImportTx", PrimaryNetworkID, i, f) EXCEPT
         !.chain = "X", !.imported = <<<<XChainTx, 0>>>>] :
        i \in FirstInput, f \in {"syntactic", "flow"}}
ExportedOutput(addrs) == [assetID |-> AVAXAssetID, addrs |-> addrs]
ExportTxs ==
    {[BaseTx("ExportTx", PrimaryNetworkID, i, "none") EXCEPT !.chain = c, !.exported = e] :
        i \in FirstInput, c \in OfferedChains,
        e \in {<<ExportedOutput({"addr1"})>>,
               <<ExportedOutput({"addr1"}), ExportedOutput({"addr1", "addr2"})>>}}
    \cup
    {[BaseTx("ExportTx", PrimaryNetworkID, i, f) EXCEPT
         !.chain = "X", !.exported = <<ExportedOutput({"addr1"})>>] :
        i \in FirstInput, f \in {"syntactic", "flow"}}
\* the credentials of a StopStakerTx that a bootstrapped node is offered; a
\* tx replayed before that was accepted with the credentials of its owner
StopStakerCreds ==
    {<<"inputOwner", o>> : o \in StakerOwners}
    \cup {<<>>, <<"inputOwner">>, <<"validationRewardsOwner">>,
          <<"inputOwner", "inputOwner", "validationRewardsOwner">>}
StopStakerTxs(st) ==
    {[BaseTx("StopStakerTx", PrimaryNetworkID, i, "none") EXCEPT
         !.target = {id}, !.creds = <<"inputOwner", StakerOwner(id)>>] :
        i \in InputSets,
        id \in {s.txID : s \in st.currentStakers \cup st.pendingStakers}
               \cup {GenesisTx}}
    \cup
    {[BaseTx("StopStakerTx", PrimaryNetworkID, i, "none") EXCEPT
         !.target = {id}, !.creds = c] :
        i \in FirstInput, id \in {s.txID : s \in st.currentStakers},
        c \in IF Bootstrapped THEN StopStakerCreds ELSE {}}
    \cup
    {[BaseTx("StopStakerTx", PrimaryNetworkID, i, f) EXCEPT
         !.target = {GenesisValidatorTx},
         !.creds = <<"inputOwner", "validationRewardsOwner">>] :
        i \in FirstInput, f \in {"syntactic", "flow"}}

\* ---- the executor as a state machine --------------------------------------
GenesisTransformSubnetTx ==
    [BaseTx("TransformSubnetTx", TransformedSubnet, {}, "none")
        EXCEPT !.maxStakeDuration = MaxStakeDuration]

GenesisState(timestamp) ==
    [timestamp |-> timestamp,
     utxos |-> GenesisUTXOs,
     currentStakers |-> {GenesisStaker},
     pendingStakers |-> {},
     supplies |-> [s \in {PrimaryNetworkID, TransformedSubnet} |-> InitialSupply],
     subnets |-> {},
     chains |-> {},
     transformations |-> [s \in {TransformedSubnet} |-> GenesisTransformSubnetTx]]

\* The supply a transformed subnet may have: TransformSubnetTx sets it to
\* the InitialSupply of the tx, any uint64.
TransformedSupplies == {InitialSupply, MaxUint64 - 50}

InitExec ==
    /\ State \in {[GenesisState(t) EXCEPT !.supplies[TransformedSubnet] = supply] :
                    t \in ChainTimes, supply \in TransformedSupplies}
    /\ Bootstrapped \in BOOLEAN
    /\ Tx = NoTx
    /\ Err = Nil
    /\ OnAccept = {}
    /\ Inputs = {}
    /\ AtomicRequests = EmptyMap
    /\ SharedMemory = InitialSharedMemory
    /\ CreatedChains = {}
    /\ applied = 0

IdleExec ==
    /\ State = GenesisState(0)
    /\ Bootstrapped = TRUE
    /\ Tx = NoTx
    /\ Err = Nil
    /\ OnAccept = {}
    /\ Inputs = {}
    /\ AtomicRequests = EmptyMap
    /\ SharedMemory = InitialSharedMemory
    /\ CreatedChains = {}
    /\ applied = 0

\* A new executor is made for the next tx of the block.
NewExecutor ==
    /\ Tx # NoTx
    /\ Tx' = NoTx
    /\ Err' = Nil
    /\ OnAccept' = {}
    /\ Inputs' = {}
    /\ AtomicRequests' = EmptyMap
    /\ UNCHANGED <<State, Bootstrapped, SharedMemory, CreatedChains, applied,
                   gossipVars, feeVars, mgrVars, clientVars, listVars>>

\* Config.CreateChain(txID, tx): the platform creates the blockchain of tx.
CreateChain(created, tx) == created \cup {tx}

\* The block of the tx is accepted and the OnAccept callback, when it is not
\* nil, is invoked.
InvokeOnAccept ==
    /\ Tx # NoTx
    /\ Err = Nil
    /\ OnAccept # {}
    /\ \E callback \in OnAccept :
          CreatedChains' = CreateChain(CreatedChains, callback[2])
    /\ UNCHANGED <<State, Bootstrapped, Tx, Err, OnAccept, Inputs, AtomicRequests,
                   SharedMemory, applied, gossipVars, feeVars, mgrVars,
                   clientVars, listVars>>

\* The executor is ready for the next tx of the block.
Ready == Tx = NoTx /\ applied < MaxTxs

\* The executor visits tx on the diff and the visitor method leaves the
\* result r. A tx replayed before bootstrapping is done comes from an
\* accepted block, so its staker is not in the diff yet.
Visit(tx, r) ==
    /\ Bootstrapped \/ \A s \in State.currentStakers \cup State.pendingStakers : s.txID # tx
    /\ Tx' = tx
    /\ State' = r.state
    /\ Err' = r.err
    /\ OnAccept' = r.onAccept
    /\ Inputs' = r.inputs
    /\ AtomicRequests' = r.atomicRequests
    /\ applied' = IF r.err = Nil THEN applied + 1 ELSE applied
    /\ UNCHANGED <<Bootstrapped, SharedMemory, CreatedChains, gossipVars, feeVars, mgrVars,
                   clientVars, listVars>>

AdvanceTimeTx ==
    /\ Ready
    /\ \E tx \in {BaseTx("AdvanceTimeTx", PrimaryNetworkID, {}, "none")} :
       Visit(tx, Fail(State, "ErrWrongTxType"))
RewardValidatorTx ==
    /\ Ready
    /\ \E tx \in {BaseTx("RewardValidatorTx", PrimaryNetworkID, {}, "none")} :
       Visit(tx, Fail(State, "ErrWrongTxType"))
CreateChainTx ==
    /\ Ready
    /\ \E tx \in CreateChainTxs : Visit(tx, execCreateChainTx(State, tx))
CreateSubnetTx ==
    /\ Ready
    /\ \E tx \in CreateSubnetTxs : Visit(tx, execCreateSubnetTx(State, tx))
ImportTx ==
    /\ Ready
    /\ \E tx \in ImportTxs : Visit(tx, execImportTx(State, tx))
ExportTx ==
    /\ Ready
    /\ \E tx \in ExportTxs : Visit(tx, execExportTx(State, tx))
AddValidatorTx ==
    /\ Ready
    /\ \E tx \in AddValidatorTxs(GetTimestamp(State)) :
       Visit(tx, execAddValidatorTx(State, tx))
AddSubnetValidatorTx ==
    /\ Ready
    /\ \E tx \in AddSubnetValidatorTxs(GetTimestamp(State)) :
       Visit(tx, execAddSubnetValidatorTx(State, tx))
AddDelegatorTx ==
    /\ Ready
    /\ \E tx \in AddDelegatorTxs(GetTimestamp(State)) :
       Visit(tx, execAddDelegatorTx(State, tx))
RemoveSubnetValidatorTx ==
    /\ Ready
    /\ \E tx \in RemoveSubnetValidatorTxs : Visit(tx, execRemoveSubnetValidatorTx(State, tx))
TransformSubnetTx ==
    /\ Ready
    /\ \E tx \in TransformSubnetTxs : Visit(tx, execTransformSubnetTx(State, tx))
AddPermissionlessValidatorTx ==
    /\ Ready
    /\ \E tx \in AddPermissionlessValidatorTxs(GetTimestamp(State)) :
       Visit(tx, execAddPermissionlessValidatorTx(State, tx))
AddPermissionlessDelegatorTx ==
    /\ Ready
    /\ \E tx \in AddPermissionlessDelegatorTxs(GetTimestamp(State)) :
       Visit(tx, execAddPermissionlessDelegatorTx(State, tx))
StopStakerTx ==
    /\ Ready
    /\ \E tx \in StopStakerTxs(State) : Visit(tx, execStopStakerTx(State, tx))


NextExec ==
    \/ NewExecutor
    \/ InvokeOnAccept
    \/ AdvanceTimeTx
    \/ RewardValidatorTx
    \/ CreateChainTx
    \/ CreateSubnetTx
    \/ ImportTx
    \/ ExportTx
    \/ AddValidatorTx
    \/ AddSubnetValidatorTx
    \/ AddDelegatorTx
    \/ RemoveSubnetValidatorTx
    \/ TransformSubnetTx
    \/ AddPermissionlessValidatorTx
    \/ AddPermissionlessDelegatorTx
    \/ StopStakerTx

(***************************************************************************)
(* Specifications: one per component, the other components idle            *)
(***************************************************************************)
IdleGossip == InitGossip

IdleFee ==
    /\ isEActive = TRUE
    /\ apricotPhase3 = TRUE
    /\ blockMaxComplexity = <<MaxUint64, MaxUint64, MaxUint64, MaxUint64>>
    /\ tipPercentage = 0
    /\ fee = 0
    /\ cumulatedUnits = Empty
    /\ fCalls = 0
    /\ fLog = << >>

IdleManager == InitManager /\ mTracked /\ ~UseCurrentHeight

(***************************************************************************)
(* avm client: ConfirmTx (vms/avm/client.go)                               *)
(***************************************************************************)
\* The counters of queries and ticks stop counting at MaxCount.
MaxCount == 2
Frequencies == {0, 1}
Statuses == {"Unknown", "Processing", "Rejected", "Accepted"}

\* choices.Status.Decided
Decided(status) == status \in {"Rejected", "Accepted"}

\* client.GetTxStatus: the reply and the error of a request that went
\* through or not; a failed request leaves the zero status in the reply.
GetTxStatus(ok) ==
    [status |-> IF ok THEN cStatus ELSE "Unknown", err |-> IF ok THEN "nil" ELSE "error"]

\* whether a request can go through, whether it can fail
RequestOutcomes == {ok \in BOOLEAN : IF ok THEN cNetOk ELSE ~cNetOk \/ ctxDone}

InitClient ==
    /\ cPc = "start"
    /\ cFreq \in Frequencies
    /\ cStatus \in Statuses
    /\ cNetOk \in BOOLEAN
    /\ ctxDone = FALSE
    /\ cLast = [status |-> "Unknown", err |-> "nil"]
    /\ cRet = [status |-> "Unknown", err |-> "nil"]
    /\ cQueries = 0
    /\ cTicks = 0

IdleClient == InitClient /\ cFreq = 1 /\ cStatus = "Unknown" /\ cNetOk

\* ConfirmTx, lines 158-159: time.NewTicker panics when freq is not positive.
NewTicker ==
    /\ cPc = "start"
    /\ cPc' = IF cFreq <= 0 THEN "panicked" ELSE "query"
    /\ UNCHANGED <<cFreq, cStatus, cNetOk, ctxDone, cLast, cRet, cQueries, cTicks>>
    /\ UNCHANGED <<gossipVars, feeVars, mgrVars, execVars, listVars>>

\* what the loop does with the reply of a query: return it or go to the select
AfterQuery(reply) ==
    IF reply.err = "nil" /\ Decided(reply.status) THEN "returned" ELSE "select"

\* ConfirmTx, lines 162-167: one query of the status.
QueryStatus ==
    /\ cPc = "query"
    /\ \E ok \in RequestOutcomes :
        LET reply == GetTxStatus(ok)
        IN /\ cLast' = reply
           /\ cPc' = AfterQuery(reply)
           /\ cRet' = IF AfterQuery(reply) = "returned"
                      THEN [status |-> reply.status, err |-> "nil"] ELSE cRet
    /\ cQueries' = Min(cQueries + 1, MaxCount)
    /\ UNCHANGED <<cFreq, cStatus, cNetOk, ctxDone, cTicks>>
    /\ UNCHANGED <<gossipVars, feeVars, mgrVars, execVars, listVars>>

\* ConfirmTx, line 170: the select receives from ticker.C.
Tick ==
    /\ cPc = "select"
    /\ cPc' = "query"
    /\ cTicks' = Min(cTicks + 1, MaxCount)
    /\ UNCHANGED <<cFreq, cStatus, cNetOk, ctxDone, cLast, cRet, cQueries>>
    /\ UNCHANGED <<gossipVars, feeVars, mgrVars, execVars, listVars>>

\* ConfirmTx, lines 171-172: the select receives from ctx.Done().
ContextDone ==
    /\ cPc = "select"
    /\ ctxDone
    /\ cPc' = "returned"
    /\ cRet' = [status |-> cLast.status, err |-> "ctx.Err"]
    /\ UNCHANGED <<cFreq, cStatus, cNetOk, ctxDone, cLast, cQueries, cTicks>>
    /\ UNCHANGED <<gossipVars, feeVars, mgrVars, execVars, listVars>>

\* The caller cancels the context, or its deadline passes.
CancelContext ==
    /\ cPc \in {"start", "query", "select"}
    /\ ~ctxDone
    /\ ctxDone' = TRUE
    /\ UNCHANGED <<cPc, cFreq, cStatus, cNetOk, cLast, cRet, cQueries, cTicks>>
    /\ UNCHANGED <<gossipVars, feeVars, mgrVars, execVars, listVars>>

\* The node learns of the transaction, then decides it.
StatusChange ==
    /\ cPc \in {"start", "query", "select"}
    /\ ~Decided(cStatus)
    /\ cStatus' \in IF cStatus = "Unknown" THEN {"Processing", "Accepted"}
                    ELSE {"Accepted", "Rejected"}
    /\ UNCHANGED <<cPc, cFreq, cNetOk, ctxDone, cLast, cRet, cQueries, cTicks>>
    /\ UNCHANGED <<gossipVars, feeVars, mgrVars, execVars, listVars>>

\* Requests start or stop going through.
NetworkChange ==
    /\ cPc \in {"start", "query", "select"}
    /\ cNetOk' = ~cNetOk
    /\ UNCHANGED <<cPc, cFreq, cStatus, ctxDone, cLast, cRet, cQueries, cTicks>>
    /\ UNCHANGED <<gossipVars, feeVars, mgrVars, execVars, listVars>>

NextClient ==
    \/ NewTicker
    \/ QueryStatus
    \/ Tick
    \/ ContextDone
    \/ CancelContext
    \/ StatusChange
    \/ NetworkChange

\* A call returns, the ticker fires, and a select that again and again finds
\* the context done takes that case at some point (Go chooses at random among
\* the ready cases).
FairClient ==
    /\ WF_vars(NewTicker)
    /\ WF_vars(QueryStatus)
    /\ WF_vars(Tick)
    /\ SF_vars(ContextDone)

(***************************************************************************)
(* Linked list (utils/linked/list.go)                                      *)
(***************************************************************************)
Lists == {"l1", "l2"}
Elements == {"e1", "e2", "e3"}
\* the nil pointer
NilElement == "nil"
\* &l.sentinel: the sentinel of a list is named as the list
Sentinel(l) == l
Nodes == Elements \cup Lists

\* the fields of all elements and lists
ListState == [next |-> lNext, prev |-> lPrev, list |-> lList, length |-> lLength]
Done(st) == [st |-> st, outcome |-> "ok"]
\* a nil pointer is dereferenced before anything was written
Panic(st) == [st |-> st, outcome |-> "panic"]

\* NewList for each list; the elements are zero values
InitList ==
    /\ lNext = [n \in Nodes |-> IF n \in Lists THEN n ELSE NilElement]
    /\ lPrev = [n \in Nodes |-> IF n \in Lists THEN n ELSE NilElement]
    /\ lList = [n \in Nodes |-> IF n \in Lists THEN n ELSE NilElement]
    /\ lLength = [l \in Lists |-> 0]
    /\ lRet = [op |-> "NewList", l |-> NilElement, e |-> NilElement, location |-> NilElement, outcome |-> "ok"]

IdleList == InitList

\* List.insertAfter
insertAfter(st, l, e, location) ==
    IF st.list[e] # NilElement THEN Done(st)
    ELSE LET n == st.next[location]
         IN Done([next |-> [st.next EXCEPT ![e] = n, ![location] = e],
                  prev |-> [st.prev EXCEPT ![e] = location, ![n] = e],
                  list |-> [st.list EXCEPT ![e] = l],
                  length |-> [st.length EXCEPT ![l] = @ + 1]])

\* List.moveAfter; the condition is evaluated from left to right, and
\* location.list of a nil location is a nil pointer dereference
moveAfter(st, l, e, location) ==
    IF st.list[e] # l THEN Done(st)
    ELSE IF location = NilElement THEN Panic(st)
    ELSE IF st.list[location] # l \/ e = location THEN Done(st)
    ELSE LET next1 == [st.next EXCEPT ![st.prev[e]] = st.next[e]]
             prev1 == [st.prev EXCEPT ![st.next[e]] = st.prev[e]]
             prev2 == [prev1 EXCEPT ![e] = location]
             next2 == [next1 EXCEPT ![e] = next1[location]]
             next3 == [next2 EXCEPT ![location] = e]
             prev3 == [prev2 EXCEPT ![next3[e]] = e]
         IN Done([st EXCEPT !.next = next3, !.prev = prev3])

\* List.PushFront
PushFront(st, l, e) == insertAfter(st, l, e, Sentinel(l))

\* List.PushBack
PushBack(st, l, e) == insertAfter(st, l, e, st.prev[Sentinel(l)])

\* List.InsertBefore
InsertBefore(st, l, e, location) ==
    IF st.list[location] = l THEN insertAfter(st, l, e, st.prev[location]) ELSE Done(st)

\* List.InsertAfter
InsertAfter(st, l, e, location) ==
    IF st.list[location] = l THEN insertAfter(st, l, e, location) ELSE Done(st)

\* Remove that does not decrement the length.
RemoveElementKeepLength(st, l, e) ==
    IF st.list[e] # l THEN Done(st)
    ELSE LET next1 == [st.next EXCEPT ![st.prev[e]] = st.next[e]]
             prev1 == [st.prev EXCEPT ![st.next[e]] = st.prev[e]]
         IN Done([next |-> [next1 EXCEPT ![e] = NilElement],
                  prev |-> [prev1 EXCEPT ![e] = NilElement],
                  list |-> [st.list EXCEPT ![e] = NilElement],
                  length |-> st.length])

\* List.Remove
RemoveElement(st, l, e) ==
    IF st.list[e] # l THEN Done(st)
    ELSE LET next1 == [st.next EXCEPT ![st.prev[e]] = st.next[e]]
             prev1 == [st.prev EXCEPT ![st.next[e]] = st.prev[e]]
         IN Done([next |-> [next1 EXCEPT ![e] = NilElement],
                  prev |-> [prev1 EXCEPT ![e] = NilElement],
                  list |-> [st.list EXCEPT ![e] = NilElement],
                  length |-> [st.length EXCEPT ![l] = @ - 1]])

\* List.MoveToFront
MoveToFront(st, l, e) ==
    IF e # st.next[Sentinel(l)] THEN moveAfter(st, l, e, Sentinel(l)) ELSE Done(st)

\* List.MoveToBack
MoveToBack(st, l, e) == moveAfter(st, l, e, st.prev[Sentinel(l)])

\* List.MoveBefore
MoveBefore(st, l, e, location) ==
    IF e # location THEN moveAfter(st, l, e, st.prev[location]) ELSE Done(st)

\* List.MoveAfter
MoveAfter(st, l, e, location) == moveAfter(st, l, e, location)

\* A call of the operation op on l, with its result applied.
ListCall(op, l, e, location, res) ==
    /\ lNext' = res.st.next
    /\ lPrev' = res.st.prev
    /\ lList' = res.st.list
    /\ lLength' = res.st.length
    /\ lRet' = [op |-> op, l |-> l, e |-> e, location |-> location, outcome |-> res.outcome]
    /\ UNCHANGED <<gossipVars, feeVars, mgrVars, execVars, clientVars>>

\* when the program is not going on after a panic
Running == lRet.outcome = "ok"

ListPushFront ==
    /\ Running
    /\ \E l \in Lists, e \in Elements :
        ListCall("PushFront", l, e, NilElement, PushFront(ListState, l, e))

ListPushBack ==
    /\ Running
    /\ \E l \in Lists, e \in Elements :
        ListCall("PushBack", l, e, NilElement, PushBack(ListState, l, e))

ListInsertBefore ==
    /\ Running
    /\ \E l \in Lists, e \in Elements, location \in Elements :
        ListCall("InsertBefore", l, e, location, InsertBefore(ListState, l, e, location))

ListInsertAfter ==
    /\ Running
    /\ \E l \in Lists, e \in Elements, location \in Elements :
        ListCall("InsertAfter", l, e, location, InsertAfter(ListState, l, e, location))

ListRemove ==
    /\ Running
    /\ \E l \in Lists, e \in Elements :
        ListCall("Remove", l, e, NilElement, RemoveElement(ListState, l, e))

ListMoveToFront ==
    /\ Running
    /\ \E l \in Lists, e \in Elements :
        ListCall("MoveToFront", l, e, NilElement, MoveToFront(ListState, l, e))

ListMoveToBack ==
    /\ Running
    /\ \E l \in Lists, e \in Elements :
        ListCall("MoveToBack", l, e, NilElement, MoveToBack(ListState, l, e))

ListMoveBefore ==
    /\ Running
    /\ \E l \in Lists, e \in Elements, location \in Elements :
        ListCall("MoveBefore", l, e, location, MoveBefore(ListState, l, e, location))

ListMoveAfter ==
    /\ Running
    /\ \E l \in Lists, e \in Elements, location \in Elements :
        ListCall("MoveAfter", l, e, location, MoveAfter(ListState, l, e, location))

NextList ==
    \/ ListPushFront
    \/ ListPushBack
    \/ ListInsertBefore
    \/ ListInsertAfter
    \/ ListRemove
    \/ ListMoveToFront
    \/ ListMoveToBack
    \/ ListMoveBefore
    \/ ListMoveAfter

InitOf(component) ==
    /\ IF component = "gossip" THEN InitGossip ELSE IdleGossip
    /\ IF component = "fee" THEN InitFee ELSE IdleFee
    /\ IF component = "manager" THEN InitManager ELSE IdleManager
    /\ IF component = "executor" THEN InitExec ELSE IdleExec
    /\ IF component = "client" THEN InitClient ELSE IdleClient
    /\ IF component = "list" THEN InitList ELSE IdleList

SpecGossip == InitOf("gossip") /\ [][NextGossip]_vars

SpecGossipInOrder == InitOf("gossip") /\ [][NextGossipInOrder]_vars

SpecFee == InitOf("fee") /\ [][NextFee]_vars

SpecManager == InitOf("manager") /\ [][NextManager]_vars

SpecManagerConcurrent == InitOf("manager") /\ [][NextManagerConcurrent]_vars

SpecExec == InitOf("executor") /\ [][NextExec]_vars

SpecClient == InitOf("client") /\ [][NextClient]_vars

\* ConfirmTx with a ticker that fires and calls that return
SpecClientFair == SpecClient /\ FairClient

SpecList == InitOf("list") /\ [][NextList]_vars

\* C6: for every tracked peer p, knownPeers[p] is a subset of local.
KnownSubsetOfLocal ==
    \A p \in DOMAIN knownPeers : knownPeers[p] \subseteq local

\* C6 witness: after a Remove that re-indexed the tail peer, some peer still
\* knows about a peer.
KnownSubsetWitness ==
    /\ gRet.op = "Remove" /\ gRet.ok
    /\ \E p \in DOMAIN knownPeers : knownPeers[p] # {}

\* C7: the assigned indices are exactly 0..count-1, the two maps are inverse
\* bijections, local has exactly those bits and knownPeers exactly the
\* tracked peers as keys.
IndexSpaceCompact ==
    LET count == Cardinality(DOMAIN peersToIndices)
    IN /\ DOMAIN indicesToPeers = 0..(count - 1)
       /\ {peersToIndices[p] : p \in DOMAIN peersToIndices} = 0..(count - 1)
       /\ \A p \in DOMAIN peersToIndices : indicesToPeers[peersToIndices[p]] = p
       /\ \A i \in DOMAIN indicesToPeers :
             /\ indicesToPeers[i] \in DOMAIN peersToIndices
             /\ peersToIndices[indicesToPeers[i]] = i
       /\ local = 0..(count - 1)
       /\ DOMAIN knownPeers = DOMAIN peersToIndices

\* C7 witness: a peer that was not the tail has been removed while others
\* remain tracked (the swap-with-tail case).
IndexSpaceWitness ==
    /\ gRet.op = "Remove" /\ gRet.ok
    /\ Cardinality(DOMAIN peersToIndices) = 2
    /\ \E p \in DOMAIN peersToIndices : p > gRet.id /\ peersToIndices[p] = 0

\* C8: on a post-E-upgrade calculator, a successful addFeesFor(x) directly
\* followed by removeFeesFor(x) (the tip percentage untouched in between)
\* succeeds and leaves the fee and the manager's cumulated complexity as they
\* were before the two calls.
FeeRoundTrip ==
    (/\ isEActive
     /\ Len(fLog) = 2
     /\ fLog[1].op = "addFeesFor" /\ fLog[1].ok
     /\ fLog[2].op = "removeFeesFor" /\ fLog[2].x = fLog[1].x)
    => (/\ fLog[2].ok
        /\ fee = fLog[1].fee
        /\ cumulatedUnits = fLog[1].cum)

\* C8 witness: a round trip of a non-empty complexity with a tip, on a
\* calculator whose fee wrapped around 2^UintBits in between.
FeeRoundTripWitness ==
    /\ isEActive
    /\ Len(fLog) = 2
    /\ fLog[1].op = "addFeesFor" /\ fLog[1].ok
    /\ fLog[2].op = "removeFeesFor" /\ fLog[2].x = fLog[1].x
    /\ fLog[1].x # Empty
    /\ fLog[1].tip # 0
    /\ fLog[2].fee < fLog[1].fee

\* C5: GetValidatorSet(h, subnet) with h at most the current height succeeds
\* and returns exactly the validator set that was current at height h.
GetValidatorSetExact ==
    (mRet.op = "GetValidatorSet" /\ mRet.targetHeight <= mRet.currentHeight)
    => (/\ mRet.err = "nil"
        /\ mRet.set = mHistory[mRet.targetHeight][mRet.subnetID])

\* The primary network part of C5.
PrimaryValidatorSetExact ==
    (/\ mRet.op = "GetValidatorSet" /\ mRet.targetHeight <= mRet.currentHeight
     /\ mRet.subnetID = PrimaryNetworkID)
    => (/\ mRet.err = "nil"
        /\ mRet.set = mHistory[mRet.targetHeight][mRet.subnetID])

\* The subnet part of C5, whenever the call succeeds.
SubnetValidatorSetExactOnSuccess ==
    (/\ mRet.op = "GetValidatorSet" /\ mRet.err = "nil")
    => mRet.set = mHistory[mRet.targetHeight][mRet.subnetID]

(***************************************************************************)
(* Standard executor: claims                                               *)
(***************************************************************************)
\* the error of the staker verifier that the visitor of tx calls
VerifierError(st, tx) ==
    CASE tx.kind = "AddValidatorTx" -> verifyAddValidatorTx(st, tx)
      [] tx.kind = "AddSubnetValidatorTx" -> verifyAddSubnetValidatorTx(st, tx)
      [] tx.kind = "AddDelegatorTx" -> verifyAddDelegatorTx(st, tx)
      [] tx.kind = "AddPermissionlessValidatorTx" -> verifyAddPermissionlessValidatorTx(st, tx)
      [] tx.kind = "AddPermissionlessDelegatorTx" -> verifyAddPermissionlessDelegatorTx(st, tx)
      [] tx.kind = "RemoveSubnetValidatorTx" -> removeSubnetValidatorValidation(st, tx)
      [] tx.kind = "StopStakerTx" -> verifyStopStakerTx(st, tx)
      [] OTHER -> Nil
VerifiedTxKinds == StakerTxKinds \cup {"RemoveSubnetValidatorTx", "StopStakerTx"}
ValidatorTxKinds ==
    {"AddValidatorTx", "AddSubnetValidatorTx", "AddPermissionlessValidatorTx"}
DelegatorTxKinds == {"AddDelegatorTx", "AddPermissionlessDelegatorTx"}
AllStakers(st) == st.currentStakers \cup st.pendingStakers

\* C1: after every transaction that the executor executed successfully, no
\* UTXO referenced by the inputs of the transaction is left in the diff.
InputsConsumed ==
    (Tx # NoTx /\ Err = Nil) => (Tx.ins \cap State.utxos = {})

\* The same holds for every variant but AddSubnetValidatorTx.
InputsConsumedButAddSubnetValidatorTx ==
    (Tx # NoTx /\ Err = Nil /\ Tx.kind # "AddSubnetValidatorTx")
        => (Tx.ins \cap State.utxos = {})

\* An AddSubnetValidatorTx was executed and its input is still in the diff.
InputLeftByAddSubnetValidatorTx ==
    /\ Tx.kind = "AddSubnetValidatorTx" /\ Err = Nil /\ Bootstrapped
    /\ Tx.ins # {} /\ Tx.ins \subseteq State.utxos

\* C2: every staker, identified by its tx id, is in exactly one of the current
\* and pending sets and on exactly one subnet: the sets share no tx id, a tx
\* id is on one subnet only, and the priority of a staker is that of its set.
StakerInOneSet ==
    /\ {s.txID : s \in State.currentStakers} \cap {s.txID : s \in State.pendingStakers} = {}
    /\ \A s1, s2 \in AllStakers(State) :
          s1.txID = s2.txID => (s1.subnetID = s2.subnetID /\ s1.nodeID = s2.nodeID)
    /\ \A s \in State.currentStakers :
          IsCurrentValidator(s.priority) \/ IsCurrentDelegator(s.priority)
    /\ \A s \in State.pendingStakers :
          IsPendingValidator(s.priority) \/ IsPendingDelegator(s.priority)
    /\ \A s \in AllStakers(State) : s.subnetID = s.txID.subnet

\* Two stakers were added to the genesis one, the last by the tx just executed.
StakerInOneSetWitness ==
    /\ applied = 2 /\ Err = Nil /\ Tx.kind \in StakerTxKinds
    /\ Cardinality(AllStakers(State)) = 3
    /\ \E s \in AllStakers(State) : s.txID = Tx

\* C3: with the node bootstrapped, an Add*Validator tx naming a (subnet, node)
\* that has a current or pending validator is rejected and the diff is
\* unchanged, with AlreadyValidator / DuplicateValidator when it passes the
\* checks made before; and the diff never holds two validators of one
\* (subnet, node).
PassesSyntaxAndStart(st, tx) == tx.fault # "syntactic" /\ ~StartsTooEarly(st, tx)
AtMostOneValidator(st) ==
    \A s1, s2 \in {s \in AllStakers(st) : IsValidator(s.priority)} :
        (s1.subnetID = s2.subnetID /\ s1.nodeID = s2.nodeID) => s1 = s2
DuplicateValidatorRejected ==
    [][Bootstrapped =>
        /\ AtMostOneValidator(State')
        /\ (/\ Tx' # NoTx
            /\ Tx'.kind \in ValidatorTxKinds
            /\ HasValidator(State, Tx'.subnet, Tx'.nodeID))
           => /\ Err' # Nil
              /\ State' = State
              /\ PassesSyntaxAndStart(State, Tx')
                    => Err' \in {"ErrAlreadyValidator", "ErrDuplicateValidator"}]_vars

\* A second AddValidatorTx for a node whose validator is still pending is
\* rejected.
DuplicateValidatorWitness ==
    /\ Bootstrapped /\ applied = 1
    /\ Tx.kind = "AddValidatorTx" /\ Err = "ErrAlreadyValidator"
    /\ HasPendingValidator(State, PrimaryNetworkID, Tx.nodeID)

\* C4: with the node bootstrapped, the weight of a validator and of its
\* delegators stays, at every instant of the interval of an admitted
\* delegator, within MaxValidatorWeightFactor times the weight of the
\* validator, capped by MaxValidatorStake once Apricot Phase 3 is active; a
\* candidate that would exceed it at some instant is rejected and the diff is
\* unchanged, with OverDelegated when it passes the checks made before.
ClaimedMaximumWeight(st, validator) ==
    LET rules == getDelegatorRules(st, validator.subnetID)
        product == rules.maxValidatorWeightFactor * validator.weight
    IN IF IsApricotPhase3Activated(GetTimestamp(st))
       THEN Min(product, rules.maxValidatorStake)
       ELSE product
PassesDelegatorChecks(st, tx) ==
    /\ PassesSyntaxAndStart(st, tx)
    /\ tx.wght >= getDelegatorRules(st, tx.subnet).minDelegatorStake
    /\ StakingPeriod(tx) >= getDelegatorRules(st, tx.subnet).minStakeDuration
    /\ StakingPeriod(tx) <= getDelegatorRules(st, tx.subnet).maxStakeDuration
    /\ tx.assetID = getDelegatorRules(st, tx.subnet).assetID
DelegationCapped ==
    [][(/\ Bootstrapped
        /\ Tx' # NoTx
        /\ Tx'.kind \in DelegatorTxKinds
        /\ HasValidator(State, Tx'.subnet, Tx'.nodeID)
        /\ getRulesErr(State, Tx'.subnet) = Nil)
       => LET validator == GetValidator(State, Tx'.subnet, Tx'.nodeID)
              new == NewStaker(State, Tx')
              limit == ClaimedMaximumWeight(State, validator)
              exceeds == \E t \in new.startTime .. new.endTime :
                            WeightAt(State, validator, t) + new.weight > limit
          IN /\ Err' = Nil =>
                   \A t \in new.startTime .. new.endTime :
                       WeightAt(State', validator, t) <= limit
             /\ exceeds =>
                   /\ Err' # Nil
                   /\ State' = State
                   /\ PassesDelegatorChecks(State, Tx') => Err' = "ErrOverDelegated"]_vars

\* The validator of weight 1000 has a delegator of weight 3000 and a
\* candidate of weight 1000 was admitted next to it, reaching the limit 5000.
DelegationCappedWitness ==
    /\ Bootstrapped /\ applied = 2 /\ Err = Nil
    /\ Tx.kind \in DelegatorTxKinds /\ Tx.wght = 1000 /\ Tx.nodeID = "n1"
    /\ \E d \in Delegators(State, GenesisStaker) : d.weight = 3000
    /\ \E t \in 0 .. MaxTime : WeightAt(State, GenesisStaker, t) = 5000

\* The candidate of weight 1001 next to the delegator of weight 3000 is
\* rejected.
OverDelegatedWitness ==
    /\ Bootstrapped /\ applied = 1 /\ Err = "ErrOverDelegated"
    /\ Tx.kind = "AddDelegatorTx" /\ Tx.wght = 1001 /\ Tx.nodeID = "n1"
    /\ \E d \in Delegators(State, GenesisStaker) : d.weight = 3000

\* C9: when the verifier of a staker, removal or stop transaction returns an
\* error, the visitor returns an error and the diff is as it was before the
\* call.
VerifierErrorLeavesDiff ==
    [][(/\ Tx' # NoTx
        /\ Tx'.kind \in VerifiedTxKinds
        /\ VerifierError(State, Tx') # Nil)
       => /\ Err' = VerifierError(State, Tx')
          /\ State' = State
          /\ OnAccept' = {}]_vars

\* A delegator is rejected by the last but one check of its verifier, on a
\* diff that an earlier transaction changed.
VerifierErrorWitness ==
    /\ applied = 1 /\ Tx.kind = "AddDelegatorTx" /\ Err = "ErrFlowCheckFailed"
    /\ Tx.ins # {} /\ Tx.ins \cap State.utxos = {}
    /\ State.utxos # GenesisUTXOs

\* C10: before the continuous staking fork and with the node bootstrapped,
\* each of the five Add* transactions is rejected with
\* TimestampNotBeforeStartTime when its start time is not after the chain
\* time, with FutureStakeTime when it is more than MaxFutureStartTime after
\* the chain time and the transaction is valid but for that, and with neither
\* when its start time is in between, the upper bound included.
PassesChecksBeforeStart(st, tx) ==
    /\ tx.fault # "syntactic"
    /\ tx.kind \in {"AddValidatorTx"} =>
          /\ tx.nodeID # EmptyNodeID
          /\ tx.wght >= MinValidatorStake /\ tx.wght <= MaxValidatorStake
          /\ tx.delegationShares >= MinDelegationFee
    /\ tx.kind \in {"AddValidatorTx", "AddSubnetValidatorTx", "AddDelegatorTx"} =>
          /\ StakingPeriod(tx) >= MinStakeDuration
          /\ StakingPeriod(tx) <= MaxStakeDuration
    /\ tx.kind = "AddDelegatorTx" => tx.wght >= MinDelegatorStake
    /\ tx.kind \in DelegatorTxKinds => HasValidator(st, tx.subnet, tx.nodeID)
AtLatestStart(st, tx) ==
    [tx EXCEPT !.start = GetTimestamp(st) + MaxFutureStartTime,
               !.end = GetTimestamp(st) + MaxFutureStartTime + StakingPeriod(tx)]
StartTimeStep(kinds) ==
    (/\ Bootstrapped
     /\ Tx' # NoTx
     /\ Tx'.kind \in kinds
     /\ ~IsContinuousStakingActivated(GetTimestamp(State)))
    => /\ (/\ Tx'.start <= GetTimestamp(State)
           /\ PassesChecksBeforeStart(State, Tx'))
          => Err' = "ErrTimestampNotBeforeStartTime"
       /\ (/\ Tx'.start > GetTimestamp(State) + MaxFutureStartTime
           /\ VerifierError(State, AtLatestStart(State, Tx')) = Nil)
          => Err' = "ErrFutureStakeTime"
       /\ (/\ Tx'.start > GetTimestamp(State)
           /\ Tx'.start <= GetTimestamp(State) + MaxFutureStartTime)
          => Err' \notin {"ErrTimestampNotBeforeStartTime", "ErrFutureStakeTime",
                          "errChainTimestampNotBeforeStartTimeUnwrapped"}
StartTimeRule == [][StartTimeStep(StakerTxKinds)]_vars

\* The rule holds for the four variants other than AddPermissionlessDelegatorTx.
StartTimeRuleButPermissionlessDelegator ==
    [][StartTimeStep(StakerTxKinds \ {"AddPermissionlessDelegatorTx"})]_vars

\* An AddPermissionlessDelegatorTx that starts at the chain time is rejected
\* with an error that is not TimestampNotBeforeStartTime.
UnwrappedStartTimeError ==
    /\ Bootstrapped /\ Tx.kind = "AddPermissionlessDelegatorTx"
    /\ Tx.start <= GetTimestamp(State)
    /\ Err = "errChainTimestampNotBeforeStartTimeUnwrapped"

\* A transaction that starts MaxFutureStartTime after the chain time is
\* admitted.
LatestStartAdmitted ==
    /\ Bootstrapped /\ Tx.kind \in StakerTxKinds /\ Err = Nil /\ applied = 1
    /\ \E s \in State.pendingStakers :
          s.txID = Tx /\ s.startTime = GetTimestamp(State) + MaxFutureStartTime

\* C11: a successful Add* staking transaction files its staker by the fork
\* read at the chain time of the diff: before continuous staking in the
\* pending set only, with the start and end times of the tx; after it in the
\* current set only, starting at the chain time; and after the fork a tx that
\* differs only in its start field is verified with the same result.
StakerFiledByFork ==
    (Tx' # NoTx /\ Tx'.kind \in StakerTxKinds /\ Err' = Nil)
    => IF ~IsContinuousStakingActivated(GetTimestamp(State))
       THEN /\ \E s \in State'.pendingStakers :
                  s.txID = Tx' /\ s.startTime = Tx'.start /\ s.endTime = Tx'.end
            /\ \A s \in State'.currentStakers : s.txID # Tx'
            /\ State'.currentStakers = State.currentStakers
       ELSE /\ \E s \in State'.currentStakers : s.txID = Tx'
            /\ \A s \in State'.currentStakers :
                  s.txID = Tx' => s.startTime = GetTimestamp(State)
            /\ \A s \in State'.pendingStakers : s.txID # Tx'
            /\ State'.pendingStakers = State.pendingStakers
OtherStarts(tx) == {s \in {tx.start - 1, tx.start + 1} : s >= 0 /\ s < tx.end}
StartFieldIgnored ==
    (/\ Tx' # NoTx
     /\ Tx'.kind \in StakerTxKinds
     /\ IsContinuousStakingActivated(GetTimestamp(State)))
    => \A s \in OtherStarts(Tx') :
          VerifierError(State, [Tx' EXCEPT !.start = s]) = VerifierError(State, Tx')
ForkGatedInsertion == [][StakerFiledByFork /\ StartFieldIgnored]_vars

\* The staker is filed in the set the fork selects, with the stated times.
ForkSelectsStakerSet == [][StakerFiledByFork]_vars

\* After the fork a validator tx is admitted whose staking period is the
\* minimum: the same tx with a start one instant later is too short.
StartFieldCounts ==
    /\ Bootstrapped /\ Err = Nil /\ applied = 1
    /\ Tx.kind = "AddValidatorTx"
    /\ IsContinuousStakingActivated(GetTimestamp(State))
    /\ StakingPeriod(Tx) = MinStakeDuration
    /\ \E s \in State.currentStakers : s.txID = Tx /\ s.startTime # Tx.start

\* C12: with the node bootstrapped, a subnet validator is admitted only when
\* its interval ([tx start, tx end] before continuous staking, [chain time,
\* chain time + staking period] after) lies within the interval of the primary
\* network validator of its node, endpoints included; one that starts before
\* or ends after it is rejected, with ValidatorSubset when it passes the
\* checks made before, and so is one whose node has no primary validator.
SubnetValidatorTx(tx) ==
    \/ tx.kind = "AddSubnetValidatorTx"
    \/ tx.kind = "AddPermissionlessValidatorTx" /\ tx.subnet # PrimaryNetworkID
ClaimedStart(st, tx) ==
    IF IsContinuousStakingActivated(GetTimestamp(st)) THEN GetTimestamp(st) ELSE tx.start
ClaimedEnd(st, tx) ==
    IF IsContinuousStakingActivated(GetTimestamp(st))
    THEN GetTimestamp(st) + (tx.end - tx.start) ELSE tx.end
PassesChecksBeforeSubset(st, tx) ==
    /\ PassesSyntaxAndStart(st, tx)
    /\ ~HasValidator(st, tx.subnet, tx.nodeID)
    /\ tx.kind = "AddSubnetValidatorTx" =>
          /\ StakingPeriod(tx) >= MinStakeDuration
          /\ StakingPeriod(tx) <= MaxStakeDuration
    /\ tx.kind = "AddPermissionlessValidatorTx" =>
          /\ getRulesErr(st, tx.subnet) = Nil
          /\ tx.wght >= getValidatorRules(st, tx.subnet).minValidatorStake
          /\ tx.wght <= getValidatorRules(st, tx.subnet).maxValidatorStake
          /\ tx.delegationShares >= getValidatorRules(st, tx.subnet).minDelegationFee
          /\ StakingPeriod(tx) >= getValidatorRules(st, tx.subnet).minStakeDuration
          /\ StakingPeriod(tx) <= getValidatorRules(st, tx.subnet).maxStakeDuration
          /\ tx.assetID = getValidatorRules(st, tx.subnet).assetID
PrimarySubsetStep ==
    (Bootstrapped /\ Tx' # NoTx /\ SubnetValidatorTx(Tx'))
    => IF ~HasValidator(State, PrimaryNetworkID, Tx'.nodeID)
       THEN Err' # Nil /\ State' = State
       ELSE LET primary == GetValidator(State, PrimaryNetworkID, Tx'.nodeID)
                inside == /\ primary.startTime <= ClaimedStart(State, Tx')
                          /\ ClaimedEnd(State, Tx') <= primary.endTime
            IN /\ Err' = Nil =>
                     /\ inside
                     /\ \A s \in AllStakers(State') :
                           s.txID = Tx' => /\ primary.startTime <= s.startTime
                                           /\ s.endTime <= primary.endTime
               /\ ~inside =>
                     /\ Err' # Nil
                     /\ State' = State
                     /\ PassesChecksBeforeSubset(State, Tx') => Err' = "ErrValidatorSubset"
               /\ inside => Err' # "ErrValidatorSubset"
ValidatorSubsetWitness ==
    /\ Bootstrapped /\ Err = "ErrValidatorSubset" /\ SubnetValidatorTx(Tx)
    /\ ClaimedEnd(State, Tx) > GetValidator(State, PrimaryNetworkID, Tx.nodeID).endTime

\* C13: a successful StopStakerTx that targets a current primary network
\* validator updates that validator and every other current staker of its
\* node, each once, to stop at the earliest stop time of the validator; one
\* that targets a delegator or a subnet validator updates that staker only;
\* no other staker changes.
TargetOf(st, tx) == CHOOSE s \in st.currentStakers : s.txID \in tx.target
ClaimedStopSet(st, tx) ==
    IF /\ IsValidator(TargetOf(st, tx).priority)
       /\ TargetOf(st, tx).subnetID = PrimaryNetworkID
    THEN {s \in st.currentStakers : s.nodeID = TargetOf(st, tx).nodeID}
    ELSE {TargetOf(st, tx)}
StopCascadeStep ==
    (Tx' # NoTx /\ Tx'.kind = "StopStakerTx" /\ Err' = Nil)
    => /\ \E s \in State.currentStakers : s.txID \in Tx'.target
       /\ State'.currentStakers =
             (State.currentStakers \ ClaimedStopSet(State, Tx'))
             \cup {[s EXCEPT !.earliestStopTime = TargetOf(State, Tx').earliestStopTime] :
                      s \in ClaimedStopSet(State, Tx')}
       /\ Cardinality(State'.currentStakers) = Cardinality(State.currentStakers)
       /\ State'.pendingStakers = State.pendingStakers
StopCascade == [][StopCascadeStep]_vars

\* The genesis validator is stopped together with a delegator of its node,
\* whose earliest stop time becomes that of the validator.
StopCascadeWitness ==
    /\ applied = 2 /\ Err = Nil /\ Tx.kind = "StopStakerTx"
    /\ Tx.target = {GenesisValidatorTx}
    /\ \E d \in State.currentStakers :
          /\ IsDelegator(d.priority) /\ d.nodeID = GenesisStaker.nodeID
          /\ d.earliestStopTime = GenesisStaker.earliestStopTime
          /\ d.endTime # d.earliestStopTime

\* A delegator is stopped alone: its validator keeps its record.
StopDelegatorWitness ==
    /\ applied = 2 /\ Err = Nil /\ Tx.kind = "StopStakerTx"
    /\ \E d \in State.currentStakers : IsDelegator(d.priority) /\ d.txID \in Tx.target
    /\ GenesisStaker \in State.currentStakers

\* C14: a StopStakerTx is rejected and the diff is unchanged when continuous
\* staking is not active at the chain time of the diff, and when no current
\* staker has the tx id it names, as when that staker is pending.
StopRejectedStep ==
    (Tx' # NoTx /\ Tx'.kind = "StopStakerTx")
    => /\ ~IsContinuousStakingActivated(GetTimestamp(State))
             => Err' = "errWrongFork" /\ State' = State
       /\ (\A s \in State.currentStakers : s.txID \notin Tx'.target)
             => /\ Err' # Nil
                /\ State' = State
                /\ (/\ IsContinuousStakingActivated(GetTimestamp(State))
                    /\ Tx'.fault # "syntactic")
                      => Err' = "errStakerNotFound"
StopRejected == [][StopRejectedStep]_vars

\* Before the fork a StopStakerTx that names a pending staker, which an
\* earlier tx added, is rejected.
StopRejectedWitness ==
    /\ applied = 1 /\ Tx.kind = "StopStakerTx" /\ Err = "errWrongFork"
    /\ \E s \in State.pendingStakers : s.txID \in Tx.target

\* After the fork a StopStakerTx that names no current staker is rejected.
StakerNotFoundWitness ==
    /\ Tx.kind = "StopStakerTx" /\ Err = "errStakerNotFound"
    /\ IsContinuousStakingActivated(GetTimestamp(State))

\* C15: a StopStakerTx is executed only if its last credential satisfies the
\* owner of the staker it stops (the validation rewards owner of a validator
\* tx, the rewards owner of a delegator tx, the subnet owner of an
\* AddSubnetValidatorTx); one with no credential, or whose last credential
\* does not satisfy that owner, is rejected with UnauthorizedStakerStopping
\* and no staker is updated; the credentials but the last are those of the
\* flow check.
LastCredSatisfies(st, tx) ==
    /\ Len(tx.creds) > 0
    /\ tx.creds[Len(tx.creds)] = StakerOwner(TargetOf(st, tx).txID)
ReachesAuthorization(st, tx) ==
    /\ IsContinuousStakingActivated(GetTimestamp(st))
    /\ tx.fault # "syntactic"
    /\ \E s \in st.currentStakers : s.txID \in tx.target
RemainingCredsStep ==
    (/\ Bootstrapped /\ Tx' # NoTx /\ Tx'.kind = "StopStakerTx"
     /\ ReachesAuthorization(State, Tx') /\ LastCredSatisfies(State, Tx'))
    => (Err' = Nil <=>
           /\ Tx'.ins \subseteq State.utxos
           /\ Tx'.fault # "flow"
           /\ SubSeq(Tx'.creds, 1, Len(Tx'.creds) - 1) = InputCreds(Tx'))
StopAuthorizedStep ==
    (Tx' # NoTx /\ Tx'.kind = "StopStakerTx")
    => /\ Err' = Nil => LastCredSatisfies(State, Tx')
       /\ (ReachesAuthorization(State, Tx') /\ ~LastCredSatisfies(State, Tx'))
             => /\ Err' = "ErrUnauthorizedStakerStopping"
                /\ State' = State
StopAuthorized == [][StopAuthorizedStep /\ RemainingCredsStep]_vars

\* C15, with the node bootstrapped and the error of each case: a StopStakerTx
\* is executed only if its last credential satisfies the owner of the staker;
\* one with no credential is rejected with WrongNumberOfCredentials, one whose
\* last credential does not satisfy the owner with UnauthorizedStakerStopping,
\* no staker being updated; the credentials but the last are those of the
\* flow check.
StopAuthorizedBootstrappedStep ==
    (Bootstrapped /\ Tx' # NoTx /\ Tx'.kind = "StopStakerTx")
    => /\ Err' = Nil => LastCredSatisfies(State, Tx')
       /\ (ReachesAuthorization(State, Tx') /\ ~LastCredSatisfies(State, Tx'))
             => /\ Err' = IF Len(Tx'.creds) = 0
                          THEN "errWrongNumberOfCredentials"
                          ELSE "ErrUnauthorizedStakerStopping"
                /\ State' = State
StopAuthorizedBootstrapped ==
    [][StopAuthorizedBootstrappedStep /\ RemainingCredsStep]_vars

\* A delegator, which an earlier tx added, is stopped by a tx whose last
\* credential is that of its rewards owner and whose other credential is that
\* of its input.
StopAuthorizedWitness ==
    /\ Bootstrapped /\ applied = 2 /\ Err = Nil /\ Tx.kind = "StopStakerTx"
    /\ Tx.creds = <<"inputOwner", "rewardsOwner">>
    /\ \E d \in State.currentStakers : IsDelegator(d.priority) /\ d.txID \in Tx.target

\* The credential of another owner is rejected; so is a tx without
\* credentials, with another error.
UnauthorizedStopWitness ==
    /\ Bootstrapped /\ Tx.kind = "StopStakerTx" /\ Err = "ErrUnauthorizedStakerStopping"
    /\ Tx.creds = <<"inputOwner", "rewardsOwner">> /\ Tx.target = {GenesisValidatorTx}
NoCredentialWitness ==
    /\ Bootstrapped /\ Tx.kind = "StopStakerTx" /\ Tx.creds = <<>>
    /\ Err = "errWrongNumberOfCredentials"

\* C16: after a successful ImportTx, AtomicRequests has one entry, for the
\* source chain, whose remove requests are the ids of the imported inputs,
\* one per input and in their order, with no put request; Inputs is the set
\* of those ids; only the local inputs of the tx are deleted from the diff;
\* and no step of the executor changes the shared memory.
ImportRequestsStep ==
    /\ SharedMemory' = SharedMemory
    /\ (Tx' # NoTx /\ Tx'.kind = "ImportTx" /\ Err' = Nil)
       => /\ DOMAIN AtomicRequests' = {Tx'.chain}
          /\ Len(AtomicRequests'[Tx'.chain].RemoveRequests) = Len(Tx'.imported)
          /\ \A i \in 1 .. Len(Tx'.imported) :
                AtomicRequests'[Tx'.chain].RemoveRequests[i] = InputID(Tx'.imported[i])
          /\ AtomicRequests'[Tx'.chain].PutRequests = <<>>
          /\ Inputs' = {InputID(Tx'.imported[i]) : i \in 1 .. Len(Tx'.imported)}
          /\ State'.utxos = (State.utxos \ Tx'.ins) \cup ProducedUTXOs(Tx')
ImportRequests == [][ImportRequestsStep]_vars

\* Two UTXOs that the X chain holds in shared memory are imported.
ImportRequestsWitness ==
    /\ Bootstrapped /\ Tx.kind = "ImportTx" /\ Err = Nil
    /\ Tx.chain = "X" /\ Len(Tx.imported) = 2
    /\ Cardinality(Inputs) = 2
    /\ Inputs \subseteq SharedMemory["X"]

\* C17: an ImportTx whose source chain is not in the subnet of this chain is
\* rejected: the diff is unchanged, no UTXO deleted or created, and there is
\* no atomic request.
ImportOtherSubnetStep ==
    (Tx' # NoTx /\ Tx'.kind = "ImportTx" /\ Tx'.chain \notin PlatformChainSubnet)
    => /\ Err' # Nil
       /\ State' = State
       /\ AtomicRequests' = EmptyMap
       /\ Tx'.fault # "syntactic" => Err' = "ErrMismatchedSubnetIDs"
ExportRequestsStep ==
    (Tx' # NoTx /\ Tx'.kind = "ExportTx" /\ Err' = Nil)
    => LET puts == AtomicRequests'[Tx'.chain].PutRequests
       IN /\ DOMAIN AtomicRequests' = {Tx'.chain}
          /\ AtomicRequests'[Tx'.chain].RemoveRequests = <<>>
          /\ Len(puts) = Len(Tx'.exported)
          /\ \A i \in 0 .. (Len(Tx'.exported) - 1) :
                /\ puts[i + 1].Key = InputID(<<Tx', Tx'.outs + i>>)
                /\ Unmarshal(puts[i + 1].Value).UTXOID = <<Tx', Tx'.outs + i>>
                /\ Unmarshal(puts[i + 1].Value).Out = Tx'.exported[i + 1]
                /\ puts[i + 1].Traits = Tx'.exported[i + 1].addrs
                /\ puts[i + 1].Key \notin {InputID(<<Tx', j>>) : j \in 0 .. (Tx'.outs - 1)}
                /\ puts[i + 1].Key \notin State'.utxos
          /\ \A i, j \in 1 .. Len(puts) : puts[i].Key = puts[j].Key => i = j
          /\ State'.utxos = (State.utxos \ Tx'.ins) \cup ProducedUTXOs(Tx')
ExportRequests == [][ExportRequestsStep]_vars

\* Two outputs are exported to the X chain, next to the output kept locally.
ExportRequestsWitness ==
    /\ Tx.kind = "ExportTx" /\ Err = Nil /\ Tx.chain = "X"
    /\ Len(Tx.exported) = 2 /\ Tx.outs = 1
    /\ Len(AtomicRequests["X"].PutRequests) = 2
    /\ <<Tx, 0>> \in State.utxos

\* C19: executing a CreateChainTx does not create the blockchain: the set of
\* created chains changes only in a step that invokes a non-nil OnAccept,
\* which adds the chain of the tx executed; OnAccept is set exactly when the
\* execution succeeded, and after a failed syntactic, authorization or flow
\* check OnAccept is nil and the diff is unchanged.
CreateChainOnAcceptStep ==
    /\ CreatedChains' # CreatedChains
       => /\ OnAccept # {} /\ Err = Nil /\ Tx' = Tx /\ State' = State
          /\ Tx.kind = "CreateChainTx"
          /\ CreatedChains' = CreatedChains \cup {Tx}
    /\ (Tx = NoTx /\ Tx' # NoTx /\ Tx'.kind = "CreateChainTx")
       => /\ CreatedChains' = CreatedChains
          /\ (OnAccept' # {}) <=> (Err' = Nil)
          /\ Err' = Nil => OnAccept' = {<<"CreateChain", Tx'>>}
          /\ Tx'.fault # "none" => Err' # Nil
          /\ Err' # Nil => (OnAccept' = {} /\ State' = State)
CreateChainOnAccept == [][CreateChainOnAcceptStep]_vars

\* A CreateChainTx was executed, its chain is in the diff, and the platform
\* has not created the chain; then the callback creates it.
CreateChainPendingWitness ==
    /\ Tx.kind = "CreateChainTx" /\ Err = Nil /\ OnAccept # {}
    /\ Tx \in State.chains /\ Tx \notin CreatedChains
CreateChainCreatedWitness ==
    /\ Tx.kind = "CreateChainTx" /\ Tx \in CreatedChains
CreateChainFailedWitness ==
    /\ applied = 1 /\ Tx.kind = "CreateChainTx" /\ Tx.fault = "auth"
    /\ Err # Nil /\ OnAccept = {}

\* C20: on a post-E-upgrade calculator, addFeesFor(c) with a non-empty c
\* succeeds, and adds exactly the fee of c to the running fee, if and only if
\* no dimension of the cumulated complexity plus c exceeds the block cap;
\* otherwise it fails, naming a breached dimension, and the running fee is
\* unchanged.
LastFeeCall == fLog[Len(fLog)]
WithinBlockCap(cum, c) ==
    \A i \in 1..FeeDimensions : cum[i] + c[i] <= blockMaxComplexity[i]
\* the fee of c: sum of unitFees[i] * c[i], scaled by 1 + tip / TipDenonimator
FeeOf(c, tip) ==
    LET base == UnitFees[1] * c[1] + UnitFees[2] * c[2]
                + UnitFees[3] * c[3] + UnitFees[4] * c[4]
    IN base + (base * tip) \div TipDenonimator
AddFeesForCall ==
    /\ isEActive
    /\ Len(fLog) > 0
    /\ LastFeeCall.op = "addFeesFor"
    /\ LastFeeCall.x # Empty
AddFeesWithinCap ==
    AddFeesForCall =>
        IF WithinBlockCap(LastFeeCall.cum, LastFeeCall.x)
        THEN /\ LastFeeCall.ok
             /\ fee = LastFeeCall.fee + FeeOf(LastFeeCall.x, LastFeeCall.tip)
        ELSE /\ ~LastFeeCall.ok
             /\ fee = LastFeeCall.fee
             /\ LET d == BreachedDimension(LastFeeCall.cum, LastFeeCall.x,
                                           blockMaxComplexity)
                IN LastFeeCall.cum[d] + LastFeeCall.x[d] > blockMaxComplexity[d]

\* C21: for paid >= required > 0, CalculateTipPercentage sets the tip
\* percentage to the integer quotient of (paid - required) * 1000000, the
\* product taken in the integers and not wrapped, by required; for
\* paid < required it fails and leaves the tip percentage unchanged.
TipPercentageCall ==
    /\ Len(fLog) > 0
    /\ LastFeeCall.op = "CalculateTipPercentage"
TipPercentageExact ==
    TipPercentageCall =>
        LET paid == LastFeeCall.feesPaid
            required == LastFeeCall.fee
        IN /\ (paid >= required /\ required > 0)
              => /\ LastFeeCall.ok
                 /\ tipPercentage = ((paid - required) * TipDenonimator) \div required
           /\ paid < required
              => /\ ~LastFeeCall.ok
                 /\ tipPercentage = LastFeeCall.tip

\* C22: before the E upgrade ComputeFee returns, whatever was called on the
\* calculator before, the fee of the static schedule: the primary network
\* validator and delegator fees for AddValidatorTx and AddDelegatorTx, the
\* subnet validator fee for AddSubnetValidatorTx, the blockchain and subnet
\* fees for CreateChainTx and CreateSubnetTx (the asset fee before Apricot
\* phase 3), the transform fee for TransformSubnetTx, zero for AdvanceTimeTx
\* and RewardValidatorTx, and the flat tx fee for every other tx.
ClaimedStaticFee(tx) ==
    CASE tx.kind = "AddValidatorTx" -> staticCfg.AddPrimaryNetworkValidatorFee
      [] tx.kind = "AddDelegatorTx" -> staticCfg.AddPrimaryNetworkDelegatorFee
      [] tx.kind = "AddSubnetValidatorTx" -> staticCfg.AddSubnetValidatorFee
      [] tx.kind = "CreateChainTx" ->
            IF apricotPhase3 THEN staticCfg.CreateBlockchainTxFee
            ELSE staticCfg.CreateAssetTxFee
      [] tx.kind = "CreateSubnetTx" ->
            IF apricotPhase3 THEN staticCfg.CreateSubnetTxFee
            ELSE staticCfg.CreateAssetTxFee
      [] tx.kind = "TransformSubnetTx" -> staticCfg.TransformSubnetTxFee
      [] tx.kind \in {"AdvanceTimeTx", "RewardValidatorTx"} -> 0
      [] OTHER -> staticCfg.TxFee
StaticFeeCall ==
    /\ ~isEActive
    /\ Len(fLog) > 0
    /\ LastFeeCall.op = "ComputeFee"
StaticFeeSchedule ==
    StaticFeeCall => (LastFeeCall.ok /\ fee = ClaimedStaticFee(LastFeeCall.tx))

\* C23: GetUnknown(p, limit) for a tracked peer p and limit > 0 returns the
\* tracked peers whose index is set in local and not in knownPeers[p], in
\* ascending order of index, cut to the first limit of them; it returns no
\* untracked node id and no duplicate, and leaves the tracker as it was. With
\* p1, p2, p3 added in that order and knowing {p1,p2,p3}, {p1,p2} and {p1},
\* it gives [], [p3] and [p2, p3].
UnknownBits(id) == local \ knownPeers[id]
GetUnknownCall(ret) ==
    /\ ret.op = "GetUnknown"
    /\ ret.limit > 0
    /\ ret.id \in DOMAIN peersToIndices
GetUnknownStep ==
    gRet'.op = "GetUnknown"
    => /\ UNCHANGED <<local, knownPeers, peersToIndices, indicesToPeers>>
       /\ GetUnknownCall(gRet')
          => LET U == UnknownBits(gRet'.id)
                 n == IF gRet'.limit < Cardinality(U) THEN gRet'.limit
                      ELSE Cardinality(U)
             IN /\ gRet'.ok
                /\ Len(gRet'.unknown) = n
                /\ \A k \in 1..n :
                      /\ gRet'.unknown[k] \in DOMAIN peersToIndices
                      /\ peersToIndices[gRet'.unknown[k]] \in U
                      /\ Cardinality({i \in U : i < peersToIndices[gRet'.unknown[k]]}) = k - 1
                /\ \A k, m \in 1..n : gRet'.unknown[k] = gRet'.unknown[m] => k = m
                /\ (/\ peersToIndices = (1 :> 0 @@ 2 :> 1 @@ 3 :> 2)
                    /\ gRet'.limit = 8)
                   => /\ knownPeers[gRet'.id] = {0, 1, 2} => gRet'.unknown = <<>>
                      /\ knownPeers[gRet'.id] = {0, 1} => gRet'.unknown = <<3>>
                      /\ knownPeers[gRet'.id] = {0} => gRet'.unknown = <<2, 3>>
GetUnknownExact == [][GetUnknownStep]_vars

\* p3 knows p1 only and is told of p2 and p3, in that order.
GetUnknownWitness ==
    /\ gRet.op = "GetUnknown" /\ gRet.ok /\ gRet.id = 3 /\ gRet.limit = 8
    /\ peersToIndices = (1 :> 0 @@ 2 :> 1 @@ 3 :> 2)
    /\ knownPeers[3] = {0}
    /\ gRet.unknown = <<2, 3>>
\* Three peers are unknown to the peer and the limit cuts them to two, after
\* a removal has moved the tail peer to a lower index.
GetUnknownCutWitness ==
    /\ gRet.op = "GetUnknown" /\ gRet.ok /\ gRet.limit = 2
    /\ Cardinality(UnknownBits(gRet.id)) = 3
    /\ Len(gRet.unknown) = 2

\* C24: when Add, Remove or UpdateKnown returns false the tracker is as it
\* was: Add of a tracked peer, Remove of an untracked peer, and UpdateKnown
\* where the peer or an element of learned is untracked all return false,
\* and UpdateKnown then applies none of the learned peers, not even those
\* listed before the untracked one.
TrackerCall(ret) == ret.op \in {"Add", "Remove", "UpdateKnown"}
FalseReturnStep ==
    (TrackerCall(gRet') /\ (gRet' # gRet \/ local' # local \/ knownPeers' # knownPeers))
    => /\ ~gRet'.ok
          => UNCHANGED <<local, knownPeers, peersToIndices, indicesToPeers>>
       /\ (gRet'.op = "Add" /\ gRet'.id \in DOMAIN peersToIndices) => ~gRet'.ok
       /\ (gRet'.op = "Remove" /\ gRet'.id \notin DOMAIN peersToIndices) => ~gRet'.ok
       /\ (/\ gRet'.op = "UpdateKnown"
           /\ \/ gRet'.id \notin DOMAIN peersToIndices
              \/ \E i \in 1..Len(gRet'.learned) :
                    gRet'.learned[i] \notin DOMAIN peersToIndices)
          => ~gRet'.ok
FalseReturnNoOp == [][FalseReturnStep]_vars

\* UpdateKnown is refused for a list whose first peer is tracked and not yet
\* known to the peer, and whose second peer is untracked.
FalseReturnWitness ==
    /\ gRet.op = "UpdateKnown" /\ ~gRet.ok
    /\ gRet.id \in DOMAIN knownPeers
    /\ Len(gRet.learned) = 2
    /\ gRet.learned[1] \in DOMAIN peersToIndices
    /\ gRet.learned[2] \notin DOMAIN peersToIndices
    /\ peersToIndices[gRet.learned[1]] \notin knownPeers[gRet.id]
(***************************************************************************)
(* Validator manager: heights above the last accepted block, minimum height *)
(***************************************************************************)
\* the validator sets a cache holds, as <<subnet, height, set>>
CachedSets(c) ==
    UNION {{<<s, h, c[s][h]>> : h \in DOMAIN c[s]} : s \in DOMAIN c}

\* a step that is a call of GetValidatorSet for a height above the last
\* accepted one
GetValidatorSetAboveCurrent ==
    /\ mQueries' = mQueries + 1
    /\ mRet'.op = "GetValidatorSet"
    /\ mRet'.targetHeight > mHeight

NotFoundAboveCurrentStep ==
    GetValidatorSetAboveCurrent
    => (/\ mRet'.err = "ErrNotFound"
        /\ mRet'.set = EmptyMap
        /\ CachedSets(caches') = CachedSets(caches)
        /\ mValidators' = mValidators)

\* C25: GetValidatorSet for a target height above the height of the last
\* accepted block returns NotFound and no validator set, for the primary
\* network and for every other subnet, and puts no validator set in a cache.
NotFoundAboveCurrent == [][NotFoundAboveCurrentStep]_vars

\* A tracked subnet was asked above the last accepted height, after blocks
\* were accepted, with validator sets cached already.
NotFoundAboveCurrentWitness ==
    /\ mRet.op = "GetValidatorSet"
    /\ mRet.subnetID # PrimaryNetworkID
    /\ mRet.currentHeight > 0
    /\ mRet.targetHeight = mRet.currentHeight + 1
    /\ mRet.err = "ErrNotFound"
    /\ mTracked
    /\ mValidators[mRet.subnetID] # EmptyMap

\* C26: GetMinimumHeight returns the last accepted height when
\* UseCurrentHeight is set or the window is empty, and otherwise the height
\* of the oldest block of the window minus one; that block has height at
\* least one, and the result is at most the last accepted height.
MinimumHeightExact ==
    mRet.op = "GetMinimumHeight"
    => (/\ mRet.height = IF UseCurrentHeight \/ mRet.window = << >>
                         THEN mRet.currentHeight
                         ELSE BlockHeight(mRet.window[1]) - 1
        /\ mRet.window # << >> => BlockHeight(mRet.window[1]) >= 1
        /\ mRet.height >= 0
        /\ mRet.height <= mRet.currentHeight
        /\ mRet.currentHeight <= mHeight)

\* The window held two blocks and the height before the older one was
\* returned.
MinimumHeightWitness ==
    /\ mRet.op = "GetMinimumHeight"
    /\ ~UseCurrentHeight
    /\ Len(mRet.window) = 2
    /\ mRet.height = mRet.currentHeight - 2

\* After a restart at a positive height the window was empty and the last
\* accepted height was returned.
MinimumHeightEmptyWindowWitness ==
    /\ mRet.op = "GetMinimumHeight"
    /\ ~UseCurrentHeight
    /\ mRet.window = << >>
    /\ mRet.height > 0
(***************************************************************************)
(* avm client: claims                                                      *)
(***************************************************************************)
\* ConfirmTx has returned in one of its two ways: the decided status of a
\* query that succeeded, or the error of a context that is done.
ReturnedProperly ==
    \/ /\ cRet.err = "nil" /\ cLast.err = "nil"
       /\ cRet.status = cLast.status /\ Decided(cRet.status)
    \/ /\ cRet.err = "ctx.Err" /\ ctxDone

\* Every end of ConfirmTx is such a return, and no tick was waited for before
\* the first query.
ConfirmTxEndsByReturn ==
    /\ cPc \notin {"start", "query", "select"} => cPc = "returned" /\ ReturnedProperly
    /\ cTicks <= cQueries

\* A failed query and an undecided status lead to the select, from where only
\* a tick leads to the next query.
ConfirmTxLoopStep ==
    /\ (cPc = "query" /\ cPc' # "query" /\ (cLast'.err # "nil" \/ ~Decided(cLast'.status)))
       => cPc' = "select"
    /\ (cPc = "select" /\ cPc' = "query") => cTicks' = Min(cTicks + 1, MaxCount)

\* If from some time on the transaction is decided and queries succeed, or if
\* the context is done at some time, ConfirmTx returns.
ConfirmTxEventuallyReturns ==
    ((<>[](Decided(cStatus) /\ cNetOk)) \/ <>ctxDone) => <>(cPc = "returned")

\* C27: ConfirmTx ends only by returning the decided status of a successful
\* query or the error of a done context; a failed query or an undecided
\* status leads to another query after the next tick, the first query comes
\* before any tick; and ConfirmTx returns if the transaction becomes decided
\* and queries succeed, or the context is cancelled.
ConfirmTxReturns ==
    /\ []ConfirmTxEndsByReturn
    /\ [][ConfirmTxLoopStep]_vars
    /\ ConfirmTxEventuallyReturns

\* The same for the calls with a positive freq only.
ConfirmTxReturnsWithTicker ==
    /\ [](cFreq > 0 => ConfirmTxEndsByReturn)
    /\ [][ConfirmTxLoopStep]_vars
    /\ (cFreq > 0 => ConfirmTxEventuallyReturns)

\* ConfirmTx returned a decided status after a query that failed and a tick.
ConfirmTxRetryWitness ==
    /\ cPc = "returned" /\ cRet.err = "nil"
    /\ cQueries = 2 /\ cTicks = 1
(***************************************************************************)
(* Linked list: claims                                                     *)
(***************************************************************************)
\* The lists are well formed: next and prev are inverse within a list, the
\* length counts the elements, an element in no list has no neighbours.
ListWellFormed ==
    /\ \A n \in Nodes :
        IF lList[n] = NilElement THEN lNext[n] = NilElement /\ lPrev[n] = NilElement
        ELSE /\ lNext[n] \in Nodes /\ lPrev[n] \in Nodes
             /\ lPrev[lNext[n]] = n /\ lNext[lPrev[n]] = n
             /\ lList[lNext[n]] = lList[n]
    /\ \A l \in Lists : lLength[l] = Cardinality({e \in Elements : lList[e] = l})

\* The arguments of the call go against what the operation documents.
PreconditionViolated(op, l, e, location) ==
    CASE op \in {"PushFront", "PushBack"} -> lList[e] # NilElement
      [] op \in {"InsertBefore", "InsertAfter"} ->
            lList[e] # NilElement \/ lList[location] # l
      [] op \in {"Remove", "MoveToFront", "MoveToBack"} -> lList[e] # l
      [] op \in {"MoveBefore", "MoveAfter"} ->
            lList[e] # l \/ lList[location] # l \/ e = location
      [] OTHER -> FALSE

ListMisuseStep ==
    PreconditionViolated(lRet'.op, lRet'.l, lRet'.e, lRet'.location)
    => (/\ lRet'.outcome = "ok"
        /\ UNCHANGED <<lNext, lPrev, lList, lLength>>)

\* C28: an operation called with arguments that violate its documented
\* precondition leaves the lists unmodified and completes normally.
ListMisuseNoOp == [][ListMisuseStep]_vars

\* The same, but for MoveBefore of an element of l before a location that is
\* in no list.
ListMisuseNoOpButDetachedLocation ==
    [][(~(/\ lRet'.op = "MoveBefore" /\ lList[lRet'.e] = lRet'.l
          /\ lList[lRet'.location] = NilElement)) => ListMisuseStep]_vars

\* MoveAfter was called with a location of another list.
ListMisuseWitness ==
    /\ lRet.op = "MoveAfter" /\ lRet.outcome = "ok"
    /\ lList[lRet.e] = lRet.l
    /\ lList[lRet.location] \in Lists \ {lRet.l}
(***************************************************************************)
(* Standard executor: the order of a transaction's effects on the diff     *)
(***************************************************************************)
\* the endTimeBound that the visitor of a staker tx passes to
\* addStakerFromStakerTx
EndTimeBound(st, tx) ==
    CASE tx.kind = "AddValidatorTx" -> MaxTime
      [] tx.kind = "AddSubnetValidatorTx" -> GetTimestamp(st) + StakingPeriod(tx)
      [] tx.kind = "AddDelegatorTx" -> GetValidator(st, PrimaryNetworkID, tx.nodeID).endTime
      [] tx.kind = "AddPermissionlessValidatorTx" ->
            IF tx.subnet = PrimaryNetworkID THEN MaxTime
            ELSE GetTimestamp(st) + StakingPeriod(tx)
      [] tx.kind = "AddPermissionlessDelegatorTx" ->
            GetValidator(st, tx.subnet, tx.nodeID).endTime

\* the diff after each group of writes of a visitor method that succeeds:
\* first, then(first), then(then(first)), ...
Spend(st, tx) == <<Consume(st, tx.ins), Produce(Consume(st, tx.ins), tx, tx)>>

\* The diffs a successful visit of tx goes through, in the order of the
\* statements of its visitor method.
Effects(st, tx) ==
    CASE tx.kind \in {"AddValidatorTx", "AddDelegatorTx", "AddPermissionlessValidatorTx",
                      "AddPermissionlessDelegatorTx"} ->
            LET added == addStakerFromStakerTx(st, tx, GetTimestamp(st),
                                               EndTimeBound(st, tx)).state
            IN <<added>> \o Spend(added, tx)
      [] tx.kind = "AddSubnetValidatorTx" ->
            LET added == addStakerFromStakerTx(st, tx, GetTimestamp(st),
                                               EndTimeBound(st, tx)).state
            IN <<added, Produce(added, tx, tx)>>
      [] tx.kind = "RemoveSubnetValidatorTx" ->
            LET removed ==
                    IF HasCurrentValidator(st, tx.subnet, tx.nodeID)
                    THEN DeleteCurrentValidator(st, GetCurrentValidator(st, tx.subnet, tx.nodeID))
                    ELSE DeletePendingValidator(st, GetPendingValidator(st, tx.subnet, tx.nodeID))
            IN <<removed>> \o Spend(removed, tx)
      [] tx.kind = "StopStakerTx" ->
            LET stopped == StopAll(st, StopStakerResult(st, tx), StopTime(st, tx))
            IN <<stopped>> \o Spend(stopped, tx)
      [] tx.kind = "CreateChainTx" ->
            Spend(st, tx) \o <<AddChain(Spend(st, tx)[2], tx)>>
      [] tx.kind = "CreateSubnetTx" ->
            Spend(st, tx) \o <<AddSubnet(Spend(st, tx)[2], tx)>>
      [] tx.kind = "TransformSubnetTx" ->
            LET transformed == AddSubnetTransformation(Spend(st, tx)[2], tx)
            IN Spend(st, tx) \o
               <<transformed, SetCurrentSupply(transformed, tx.subnet, InitialSupply)>>
      [] OTHER -> Spend(st, tx)

(***************************************************************************)
(* Standard executor: claim on the order of effects                        *)
(***************************************************************************)
\* a successful visit
Executed == applied' = applied + 1

\* the stakers or the supplies of diff d are not those of st
StakersWritten(st, d) ==
    \/ d.currentStakers # st.currentStakers
    \/ d.pendingStakers # st.pendingStakers
    \/ d.supplies # st.supplies

\* the inputs of tx are consumed and its outputs produced in diff d
Spent(d, tx) ==
    /\ tx.ins \cap d.utxos = {}
    /\ ProducedUTXOs(tx) \subseteq d.utxos

\* The diffs of Effects end in the diff that the visit leaves.
EffectsEndInState ==
    [][Executed => Effects(State, Tx')[Len(Effects(State, Tx'))] = State']_vars

EffectOrderStep ==
    Executed
    => \A i \in 1 .. Len(Effects(State, Tx')) :
          StakersWritten(State, Effects(State, Tx')[i]) => Spent(Effects(State, Tx')[i], Tx')

\* C30: the effects of a transaction reach the diff in the order consume
\* inputs, produce outputs, staker mutations: no staker or supply write is in
\* the diff before the inputs of the transaction are consumed and its
\* outputs produced.
EffectOrder == [][EffectOrderStep]_vars

\* The staker txs apart, the order is the claimed one.
EffectOrderButStakerTxs ==
    [][Tx'.kind \in {"CreateChainTx", "CreateSubnetTx", "TransformSubnetTx", "ImportTx",
                     "ExportTx"} => EffectOrderStep]_vars
(***************************************************************************)
(* Standard executor: the delegation cap                                   *)
(***************************************************************************)
\* min(factor * weight, maximum validator stake), the product saturating
ClaimedDelegationCap(factor, weight, maxValidatorStake) ==
    Min(IF Mul64(factor, weight) = -1 THEN MaxUint64 ELSE Mul64(factor, weight),
        maxValidatorStake)

\* validators of usual weights, and one whose weight times the factor
\* overflows
ProbedValidators ==
    {[weight |-> w] : w \in {1000, 3000, MaxUint64 \div MaxValidatorWeightFactor + 1}}

\* C31: for both delegator variants the cap handed to canDelegate is
\* min(MaxValidatorWeightFactor * validator weight, maximum validator stake),
\* with a product that overflows saturated to the largest uint64 and no
\* failure of the transaction (-1 stands for the overflow error).
DelegationCapSaturates ==
    \A v \in ProbedValidators :
        /\ AddDelegatorMaximumWeight(State, v)
           = ClaimedDelegationCap(MaxValidatorWeightFactor, v.weight, MaxValidatorStake)
        /\ AddPermissionlessDelegatorMaximumWeight(PrimaryRules, v)
           = ClaimedDelegationCap(PrimaryRules.maxValidatorWeightFactor, v.weight,
                                  PrimaryRules.maxValidatorStake)

\* The permissionless half of C31.
PermissionlessDelegationCapSaturates ==
    \A v \in ProbedValidators, subnet \in {PrimaryNetworkID, TransformedSubnet} :
        getRulesErr(State, subnet) = Nil
        => AddPermissionlessDelegatorMaximumWeight(getDelegatorRules(State, subnet), v)
           = ClaimedDelegationCap(getDelegatorRules(State, subnet).maxValidatorWeightFactor,
                                  v.weight, getDelegatorRules(State, subnet).maxValidatorStake)

\* The AddDelegatorTx half of C31 from Apricot Phase 3 on and without overflow.
AddDelegatorCapAfterApricotPhase3 ==
    \A v \in ProbedValidators :
        (/\ IsApricotPhase3Activated(GetTimestamp(State))
         /\ Mul64(MaxValidatorWeightFactor, v.weight) # -1)
        => AddDelegatorMaximumWeight(State, v)
           = ClaimedDelegationCap(MaxValidatorWeightFactor, v.weight, MaxValidatorStake)

\* C31 on the transactions executed: an admitted delegator is within the
\* claimed cap, one refused as over-delegated is not, and none fails with an
\* overflow error.
DelegationCapStep ==
    (/\ Tx'.kind \in {"AddDelegatorTx", "AddPermissionlessDelegatorTx"}
     /\ Tx' # Tx
     /\ Bootstrapped
     /\ Err' \in {Nil, "ErrOverDelegated", "ErrStakeOverflow"})
    => LET validator == GetValidator(State, Tx'.subnet, Tx'.nodeID)
           cap == ClaimedDelegationCap(MaxValidatorWeightFactor, validator.weight,
                                       MaxValidatorStake)
       IN /\ Err' # "ErrStakeOverflow"
          /\ (Err' = Nil) = canDelegate(State, validator, cap, NewStaker(State, Tx'))
DelegationCapOfExecuted == [][DelegationCapStep]_vars

\* C32: when the required fee of the calculator is zero,
\* CalculateTipPercentage succeeds for every paid and the tip percentage is
\* zero afterwards, whatever it was before the call.
TipZeroWhenFeeZero ==
    (TipPercentageCall /\ LastFeeCall.fee = 0)
    => (LastFeeCall.ok /\ tipPercentage = 0)

\* With a zero fee the call succeeds and leaves the tip percentage as it was.
TipKeptWhenFeeZero ==
    (TipPercentageCall /\ LastFeeCall.fee = 0)
    => (LastFeeCall.ok /\ tipPercentage = LastFeeCall.tip)

(***************************************************************************)
(* C33: the bandwidth of a metered tx                                      *)
(***************************************************************************)
\* The last call is the addFeesFor that ends the metering of a tx.
MeterTxCall ==
    /\ fLog # << >>
    /\ LastFeeCall.op = "addFeesFor"
    /\ LastFeeCall.tx # NoFeeTx

RECURSIVE SumOver(_, _)
SumOver(values, from) ==
    IF from > Len(values) THEN 0 ELSE values[from] + SumOver(values, from + 1)

CredentialsBandwidth(tx) ==
    SumOver([i \in 1..Len(tx.credentials) |-> MeterCredential(tx.credentials[i])[1]], 1)

\* C33: post-E-upgrade the bandwidth of a metered tx is the size of its
\* unsigned bytes plus the codec version size plus the size of a slice length
\* prefix, whatever the number of its signatures.
MeteredBandwidthExact ==
    MeterTxCall =>
        LastFeeCall.x[1] = LastFeeCall.tx.uTxSize + VersionSize + IntLen

\* What meterTx computes: the bandwidth of every credential is part of the
\* bandwidth of the tx; the inputs and the outputs add nothing to it.
MeteredBandwidthCountsCredentials ==
    MeterTxCall =>
        LastFeeCall.x[1] = LastFeeCall.tx.uTxSize + VersionSize + IntLen
                            + CredentialsBandwidth(LastFeeCall.tx)

\* A tx with inputs and outputs and no credential is metered as C33 says.
MeteredBandwidthWithoutCredentials ==
    \A uTxSize \in {0, 30}, ins, outs \in {<< >>, <<60>>, <<60, 40>>} :
        LET m == meterTx(Metered(uTxSize, << >>, ins, outs))
        IN m.err = "nil" /\ m.complexity[1] = uTxSize + VersionSize + IntLen

MeteredWithSignaturesWitness ==
    /\ MeterTxCall
    /\ LastFeeCall.ok
    /\ Len(LastFeeCall.tx.credentials) > 0

(***************************************************************************)
(* C34: the order of the peers GetUnknown returns                          *)
(***************************************************************************)
PositionIn(seq, x) == CHOOSE k \in 1..Len(seq) : seq[k] = x

\* The tracked peers unknown to id.
UnknownTo(id) ==
    {p \in DOMAIN peersToIndices : peersToIndices[p] \notin knownPeers[id]}

\* C34: after any sequence of Add, Remove and UpdateKnown, GetUnknown lists
\* the unknown peers oldest-added first: of two unknown peers the one added
\* earlier precedes the other in the result, and is in the result whenever
\* the other is.
UnknownOldestFirst ==
    (gRet.op = "GetUnknown" /\ gRet.ok)
    => \A a, b \in UnknownTo(gRet.id) :
          (PositionIn(addOrder, a) < PositionIn(addOrder, b)
           /\ \E k \in 1..Len(gRet.unknown) : gRet.unknown[k] = b)
          => /\ \E k \in 1..Len(gRet.unknown) : gRet.unknown[k] = a
             /\ PositionIn(gRet.unknown, a) < PositionIn(gRet.unknown, b)

\* The indices are in the order of the Adds, as they are until a Remove of
\* a peer that is not the last added.
IndicesInAddOrder ==
    \A p, q \in DOMAIN peersToIndices :
        PositionIn(addOrder, p) < PositionIn(addOrder, q)
        <=> peersToIndices[p] < peersToIndices[q]

\* What GetUnknown does: oldest first as long as no Remove has moved a peer
\* to the index of an older one.
UnknownOldestFirstInAddOrder ==
    IndicesInAddOrder => UnknownOldestFirst

\* The history is the set of the tracked peers, each once.
AddOrderTracksPeers ==
    /\ {addOrder[k] : k \in 1..Len(addOrder)} = DOMAIN peersToIndices
    /\ Len(addOrder) = Cardinality(DOMAIN peersToIndices)

UnknownOutOfOrderWitness ==
    /\ gRet.op = "GetUnknown" /\ gRet.ok
    /\ ~IndicesInAddOrder
    /\ Len(gRet.unknown) = 2

(***************************************************************************)
(* C35: Remove keeps what the remaining peers know of each other           *)
(***************************************************************************)
\* r is known to q: the bit at r's index is set in knownPeers[q].
KnownTo(known, indices, q, r) == indices[r] \in known[q]

RemoveKeepsKnowledgeStep ==
    /\ (/\ gRet'.op = "Remove" /\ gRet'.ok
        /\ gRet'.id \in DOMAIN peersToIndices
        /\ gRet'.id \notin DOMAIN peersToIndices')
       => /\ DOMAIN peersToIndices' = DOMAIN peersToIndices \ {gRet'.id}
          /\ DOMAIN knownPeers' = DOMAIN knownPeers \ {gRet'.id}
          /\ \A q, r \in DOMAIN peersToIndices' :
                KnownTo(knownPeers', peersToIndices', q, r)
                <=> KnownTo(knownPeers, peersToIndices, q, r)
          /\ \A q \in DOMAIN knownPeers' :
                knownPeers'[q] \subseteq
                    {peersToIndices'[r] : r \in DOMAIN peersToIndices'}
    /\ (/\ gRet'.op = "Add" /\ gRet'.ok
        /\ gRet'.id \notin DOMAIN peersToIndices
        /\ gRet'.id \in DOMAIN peersToIndices')
       => \A q \in DOMAIN knownPeers' :
             ~KnownTo(knownPeers', peersToIndices', q, gRet'.id)

\* C35: Remove(p) leaves the knowledge relation among the other peers as it
\* was (r is known to q after it iff it was before, whatever index r has
\* now) and erases the knowledge about p, so that a peer added afterwards is
\* unknown to every peer.
RemoveKeepsKnowledge == [][RemoveKeepsKnowledgeStep]_vars

\* After Remove(1), peer 3 has the index 0 that peer 1 may have had, and is
\* known to peer 2, which is not known to peer 3.
RemoveKeepsKnowledgeWitness ==
    /\ gRet.op = "Remove" /\ gRet.ok /\ gRet.id = 1
    /\ DOMAIN peersToIndices = {2, 3}
    /\ peersToIndices[3] = 0
    /\ knownPeers[2] = {0}
    /\ knownPeers[3] = {}

(***************************************************************************)
(* C36: the validator set cache                                            *)
(***************************************************************************)
\* a step that is a call of GetValidatorSet for a height whose set is in
\* the cache of the subnet
GetValidatorSetOfCached ==
    /\ mQueries' = mQueries + 1
    /\ mRet'.op = "GetValidatorSet"
    /\ mRet'.subnetID \in DOMAIN caches
    /\ mRet'.targetHeight \in DOMAIN caches[mRet'.subnetID]

CachedSetReturnedStep ==
    GetValidatorSetOfCached
    => /\ mRet'.err = "nil"
       /\ mRet'.set = caches[mRet'.subnetID][mRet'.targetHeight]

\* C36: once GetValidatorSet(h, subnet) has succeeded for the primary network
\* or a tracked subnet, a later GetValidatorSet(h, subnet) returns the cached
\* set, whatever the current validator set and the diffs have become.
CachedSetReturned == [][CachedSetReturnedStep]_vars

\* C36, second part: nothing is ever cached for a subnet that is neither the
\* primary network nor tracked.
UntrackedNeverCached ==
    \A s \in DOMAIN caches : s = PrimaryNetworkID \/ mTracked

\* What GetValidatorSet does: the cache is written and never read, the set
\* is built again from the current validators and the diffs; when that
\* succeeds the set is the cached one.
CachedSetBuiltAgainStep ==
    GetValidatorSetOfCached
    => /\ mRet'.currentHeight = mHeight
       /\ mRet'.err = "nil" => mRet'.set = caches[mRet'.subnetID][mRet'.targetHeight]
       /\ mRet'.err # "nil" => caches' = caches
CachedSetBuiltAgain == [][CachedSetBuiltAgainStep]_vars

(***************************************************************************)
(* C37: the current supply when a staker is added                          *)
(***************************************************************************)
AddStakerKinds ==
    {"AddValidatorTx", "AddDelegatorTx", "AddSubnetValidatorTx",
     "AddPermissionlessValidatorTx", "AddPermissionlessDelegatorTx"}

\* a successful visit of an Add* tx
StakerAdded == Executed /\ Tx'.kind \in AddStakerKinds

\* the staker that the visit of tx has put in diff d
StakerOf(d, tx) == CHOOSE staker \in d.currentStakers \cup d.pendingStakers : staker.txID = tx

OtherSuppliesKept(subnetID) ==
    /\ DOMAIN State'.supplies = DOMAIN State.supplies
    /\ \A s \in DOMAIN State.supplies \ {subnetID} : State'.supplies[s] = State.supplies[s]

\* the supplies after a staker is added, but for the value of the sum
SupplyStep(sum) ==
    StakerAdded
    => /\ \E staker \in State'.currentStakers \cup State'.pendingStakers : staker.txID = Tx'
       /\ IF ~IsContinuousStakingActivated(GetTimestamp(State))
          THEN State'.supplies = State.supplies
          ELSE IF Tx'.kind = "AddSubnetValidatorTx"
          THEN /\ State'.supplies = State.supplies
               /\ StakerOf(State', Tx').potentialReward = 0
          ELSE /\ StakerOf(State', Tx').potentialReward =
                    Calculate(StakingPeriod(Tx'), Tx'.wght, State.supplies[Tx'.subnet])
               /\ State'.supplies[Tx'.subnet] = sum
               /\ OtherSuppliesKept(Tx'.subnet)

SupplyIsSumStep ==
    SupplyStep(State.supplies[Tx'.subnet] + StakerOf(State', Tx').potentialReward)

SupplyIsWrappedSumStep ==
    SupplyStep((State.supplies[Tx'.subnet] + StakerOf(State', Tx').potentialReward)
               % (MaxUint64 + 1))

SupplyIsWrappedSum == [][SupplyIsWrappedSumStep]_vars

\* A reward-bearing staker has been added post-fork and the supply grew.
SupplyGrownWitness ==
    /\ applied > 0
    /\ Tx.kind \in AddStakerKinds \ {"AddSubnetValidatorTx"}
    /\ Err = Nil
    /\ \E staker \in State.currentStakers :
          /\ staker.txID = Tx
          /\ staker.potentialReward > 0
          /\ State.supplies[Tx.subnet] = InitialSupply + staker.potentialReward

(***************************************************************************)
(* C38: the static fee and the fee of the flow check                       *)
(***************************************************************************)
\* config.Config.GetCreateBlockchainTxFee and GetCreateSubnetTxFee at the
\* chain time at which the calculator was made.
GetCreateBlockchainTxFee ==
    IF apricotPhase3 THEN staticCfg.CreateBlockchainTxFee ELSE staticCfg.CreateAssetTxFee
GetCreateSubnetTxFee ==
    IF apricotPhase3 THEN staticCfg.CreateSubnetTxFee ELSE staticCfg.CreateAssetTxFee

\* The AVAX fee that the verifiers of the staker txs hand to VerifySpend.
verifierFee(tx) ==
    CASE tx.kind = "AddValidatorTx" -> staticCfg.AddPrimaryNetworkValidatorFee
      [] tx.kind = "AddSubnetValidatorTx" -> staticCfg.AddSubnetValidatorFee
      [] tx.kind = "RemoveSubnetValidatorTx" -> staticCfg.TxFee
      [] tx.kind = "AddDelegatorTx" -> staticCfg.AddPrimaryNetworkDelegatorFee
      [] tx.kind = "AddPermissionlessValidatorTx" ->
            IF tx.Subnet # "primary" THEN staticCfg.AddSubnetValidatorFee
            ELSE staticCfg.AddPrimaryNetworkValidatorFee
      [] tx.kind = "AddPermissionlessDelegatorTx" ->
            IF tx.Subnet # "primary" THEN staticCfg.AddSubnetDelegatorFee
            ELSE staticCfg.AddPrimaryNetworkDelegatorFee

\* The AVAX fee that the visitor methods of the executor hand to VerifySpend.
executorFee(tx) ==
    CASE tx.kind = "CreateChainTx" -> GetCreateBlockchainTxFee
      [] tx.kind = "CreateSubnetTx" -> GetCreateSubnetTxFee
      [] tx.kind \in {"ImportTx", "ExportTx"} -> staticCfg.TxFee
      [] tx.kind = "TransformSubnetTx" -> staticCfg.TransformSubnetTxFee

VerifiedKinds ==
    {"AddValidatorTx", "AddSubnetValidatorTx", "RemoveSubnetValidatorTx", "AddDelegatorTx",
     "AddPermissionlessValidatorTx", "AddPermissionlessDelegatorTx"}
ExecutorKinds ==
    {"CreateChainTx", "CreateSubnetTx", "ImportTx", "ExportTx", "TransformSubnetTx"}

flowCheckFee(tx) == IF tx.kind \in VerifiedKinds THEN verifierFee(tx) ELSE executorFee(tx)

\* The last call is ComputeFee, pre-E-upgrade, of a tx whose flow check is
\* made by the executor or by its verifier.
FlowCheckedFeeCall ==
    /\ StaticFeeCall
    /\ LastFeeCall.tx.kind \in VerifiedKinds \cup ExecutorKinds

\* C38: pre-E-upgrade the fee that the static calculator returns for a tx is
\* the AVAX fee that the executor or its verifier requires in the flow check
\* of that tx, for every fee-bearing variant and chain time.
StaticFeeIsFlowCheckFee ==
    FlowCheckedFeeCall => fee = flowCheckFee(LastFeeCall.tx)

\* The two agree on every variant but AddPermissionlessValidatorTx on the
\* primary network.
StaticFeeIsFlowCheckFeeButPrimaryValidator ==
    (/\ FlowCheckedFeeCall
     /\ LastFeeCall.tx # FeeTx("AddPermissionlessValidatorTx", "primary"))
    => fee = flowCheckFee(LastFeeCall.tx)

(***************************************************************************)
(* C39: GetValidatorSet and concurrent block acceptance                    *)
(***************************************************************************)
\* What a call in flight has read is what was current at one height.
ReadOfOneBlock ==
    mRead.busy =>
        /\ mRead.current.height \in DOMAIN mHistory
        /\ SetsOf(mRead.current.validators) = mHistory[mRead.current.height]

\* a block is accepted while a call is in flight
AcceptedDuringCall == mRead.busy /\ mHeight' # mHeight

AcceptedDuringCallStep ==
    AcceptedDuringCall
    => /\ mRead' = mRead
       /\ finishGetValidatorSet(mRead)' = finishGetValidatorSet(mRead)

\* the call in flight ends
CallFinished == mRead.busy /\ ~mRead'.busy

CallFinishedStep ==
    CallFinished
    => /\ mRet'.currentHeight = mRead.current.height
       /\ mRet'.err = finishGetValidatorSet(mRead).err
       /\ mRet'.set = finishGetValidatorSet(mRead).set
       /\ mRet'.err = "nil" => mRet'.set = mHistory[mRet'.targetHeight][mRet'.subnetID]

\* C39: under any interleaving of block acceptance with GetValidatorSet
\* calls, the current sets and the current height that a call uses are those
\* of one last accepted block, and a block accepted after the call has read
\* them changes neither the heights whose diffs the call applies nor the set
\* it returns.
ReadIsolatedFromAccept ==
    /\ []ReadOfOneBlock
    /\ [][AcceptedDuringCallStep]_vars
    /\ [][CallFinishedStep]_vars

\* A call that has diffs to apply is in flight and a block was accepted
\* after it read the current sets.
AcceptedDuringCallWitness ==
    /\ mRead.busy
    /\ mRead.targetHeight < mRead.current.height
    /\ mRead.current.height < mHeight
    /\ mRead.current.validators # mValidators

(***************************************************************************)
(* C40: the invariants of the linked list                                  *)
(***************************************************************************)
\* List.Front and List.Back
Front(l) == IF lLength[l] = 0 THEN NilElement ELSE lNext[Sentinel(l)]
Back(l) == IF lLength[l] = 0 THEN NilElement ELSE lPrev[Sentinel(l)]

\* The elements met by following next from n up to the sentinel of l; the
\* walk ends with the nil pointer if it meets it or does not come back to
\* the sentinel within fuel steps.
RECURSIVE WalkFrom(_, _, _)
WalkFrom(n, l, fuel) ==
    IF n = Sentinel(l) THEN << >>
    ELSE IF n = NilElement \/ fuel = 0 THEN <<NilElement>>
    ELSE <<n>> \o WalkFrom(lNext[n], l, fuel - 1)

Walk(l) == WalkFrom(lNext[Sentinel(l)], l, Cardinality(Elements))

Visited(l) == {Walk(l)[k] : k \in 1..Len(Walk(l))}

\* Following next from the sentinel visits exactly Len() elements and comes
\* back to the sentinel; prev is the inverse of next along the cycle; every
\* visited element has list = l; Front and Back are the first and the last
\* visited element, nil iff Len() = 0.
ListCycle ==
    \A l \in Lists :
        /\ NilElement \notin Visited(l)
        /\ Len(Walk(l)) = lLength[l]
        /\ Cardinality(Visited(l)) = lLength[l]
        /\ \A n \in Visited(l) \cup {Sentinel(l)} :
              lPrev[lNext[n]] = n /\ lNext[lPrev[n]] = n
        /\ \A e \in Visited(l) : lList[e] = l
        /\ Visited(l) = {e \in Elements : lList[e] = l}
        /\ Front(l) = (IF Walk(l) = << >> THEN NilElement ELSE Walk(l)[1])
        /\ Back(l) = (IF Walk(l) = << >> THEN NilElement ELSE Walk(l)[Len(Walk(l))])
        /\ (Front(l) = NilElement) <=> (lLength[l] = 0)
        /\ (Back(l) = NilElement) <=> (lLength[l] = 0)

\* A Move* operation changes neither Len() nor the set of the elements of
\* any list.
MoveKeepsElementsStep ==
    lRet'.op \in {"MoveToFront", "MoveToBack", "MoveBefore", "MoveAfter"}
    => /\ lLength' = lLength
       /\ lList' = lList

\* An element removed from its list has nil next, prev and list, and is
\* inserted by a later PushFront or PushBack.
RemovedIsDetachedStep ==
    (lRet'.op = "Remove" /\ lList[lRet'.e] = lRet'.l)
    => /\ lNext'[lRet'.e] = NilElement
       /\ lPrev'[lRet'.e] = NilElement
       /\ lList'[lRet'.e] = NilElement
       /\ lLength'[lRet'.l] = lLength[lRet'.l] - 1

DetachedIsInsertedStep ==
    (lRet'.op \in {"PushFront", "PushBack"} /\ lList[lRet'.e] = NilElement)
    => /\ lList'[lRet'.e] = lRet'.l
       /\ lLength'[lRet'.l] = lLength[lRet'.l] + 1
       /\ lRet'.op = "PushFront" => lNext'[Sentinel(lRet'.l)] = lRet'.e
       /\ lRet'.op = "PushBack" => lPrev'[Sentinel(lRet'.l)] = lRet'.e

\* C40: after any sequence of PushFront, PushBack, InsertBefore, InsertAfter,
\* Remove and Move* operations the list is a cycle through the sentinel of
\* Len() elements with prev the inverse of next, every element of it has
\* list = l, Front and Back are its first and last element; Move* operations
\* change neither Len() nor the elements; a removed element has nil next,
\* prev and list and can be inserted again.
ListInvariants ==
    /\ []ListCycle
    /\ [][MoveKeepsElementsStep]_vars
    /\ [][RemovedIsDetachedStep]_vars
    /\ [][DetachedIsInsertedStep]_vars

\* Three elements are in l1 and the last call, a Move*, completed.
ListInvariantsWitness ==
    /\ Walk("l1") = <<"e3", "e1", "e2">>
    /\ lRet.op \in {"MoveToFront", "MoveBefore", "MoveAfter"}
    /\ lRet.outcome = "ok"

====
